---------------------------- MODULE Spec2Model ----------------------------
(***************************************************************************)
(* The LaTeX mode of the editor (public/es/ide/editor/codemirror/parser.js *)
(* with mark.js): a resumable pushdown tokenizer that styles one token per *)
(* call and records marks (title, sections, math, list items, ...).       *)
(*                                                                         *)
(* A line is a TLA+ string; the StringStream over it is (string, pos,      *)
(* start) with 0-based pos.  Every regular expression of the source is an  *)
(* operator that returns the length of its match at a position, or NoMatch.*)
(* A tokenizer function of the source is an operator from a context (the   *)
(* stream plus the mode state) to a context whose field ret is the style   *)
(* it returned.  A closure on state.stack is a record of its code (fn) and *)
(* its captured variables; the one captured variable that a closure        *)
(* mutates (i of _matchSequence) lives in heap, so that copies of the      *)
(* state share it as they do in JavaScript.                                *)
(***************************************************************************)
EXTENDS Integers, Sequences, FiniteSets, TLC

VARIABLES
    state,      \* the mode state: [stack, line, openMarks, marks]
    heap,       \* heap[c]: the variable i of the c-th _matchSequence call
    nextId,     \* identity given to the next Mark object that is opened
    stream,     \* the host's StringStream: [string, pos, start]
    corpus,     \* the document family the host types (index in Corpora)
    fed,        \* number of lines the host has started
    lastCall,   \* "none", "line" (a line was handed over), "token", "blankLine"
    result,     \* the style the last call returned
    error,      \* "none", or what the last call threw
    saved,      \* the host's copy of the state at a line boundary (or NoSave)
    phase,      \* restart experiment: "run", "saved", "rerun", "done"
    tail,       \* lines fed to the original state after the copy was taken
    outA,       \* styles the original state emitted for tail
    outB,       \* styles the copy emitted for tail
    finalA      \* the original state at the end of tail

vars == <<state, heap, nextId, stream, corpus, fed, lastCall, result, error,
          saved, phase, tail, outA, outB, finalA>>

(***************************************************************************)
(* Bounds of the model.                                                    *)
(***************************************************************************)
\* number of lines of a document drawn freely from a family's lines
MaxLines == 3

(***************************************************************************)
(* Values.                                                                 *)
(***************************************************************************)
Undef == "undefined"          \* the falsy results undefined / null
NoMatch == 0 - 1              \* stream.match returned null
Pos(line, ch) == [line |-> line, ch |-> ch]
NoPos == [line |-> 0 - 1, ch |-> 0 - 1]     \* an undefined position
NoProps == <<>>               \* checkedProperties = {}

PosLT(a, b) == a.line < b.line \/ (a.line = b.line /\ a.ch < b.ch)
PosLE(a, b) == a = b \/ PosLT(a, b)

\* new Mark(kind, from, contentFrom, contentTo, to, openParent); id stands
\* for the identity of the JavaScript object.
Mark(id, kind, from, contentFrom, contentTo, to, openParent) ==
    [id |-> id, kind |-> kind, from |-> from, to |-> to,
     contentFrom |-> contentFrom, contentTo |-> contentTo,
     openParent |-> openParent, checkedProperties |-> NoProps]

\* the value of an absent openParent (undefined)
NoMark == [id |-> 0]

SetProp(m, name, v) ==
    [m EXCEPT !.checkedProperties = (name :> v) @@ m.checkedProperties]

(***************************************************************************)
(* Characters and the line stream.                                         *)
(***************************************************************************)
Letters == {"a","b","c","d","e","f","g","h","i","j","k","l","m","n","o","p",
            "q","r","s","t","u","v","w","x","y","z",
            "A","B","C","D","E","F","G","H","I","J","K","L","M","N","O","P",
            "Q","R","S","T","U","V","W","X","Y","Z"}
Digits == {"0","1","2","3","4","5","6","7","8","9"}
\* the class \s over the characters of the modelled lines
Whitespace == {" ", "\t"}

\* the character at 0-based position p, "" at the end of the line
CharAt(str, p) == IF p < Len(str) THEN SubSeq(str, p + 1, p + 1) ELSE ""

HasPrefix(str, p, lit) ==
    p + Len(lit) <= Len(str) /\ SubSeq(str, p + 1, p + Len(lit)) = lit

RECURSIVE SkipIn(_, _, _)
\* end of the longest run of characters of S that starts at p
SkipIn(str, p, S) ==
    IF p < Len(str) /\ CharAt(str, p) \in S THEN SkipIn(str, p + 1, S) ELSE p

RECURSIVE SkipNotIn(_, _, _)
\* end of the longest run of characters outside S that starts at p
SkipNotIn(str, p, S) ==
    IF p < Len(str) /\ CharAt(str, p) \notin S
    THEN SkipNotIn(str, p + 1, S) ELSE p

RECURSIVE IndexOf(_, _, _)
\* string.indexOf(ch, p): Len(str) stands for -1
IndexOf(str, ch, p) ==
    IF p >= Len(str) THEN Len(str)
    ELSE IF CharAt(str, p) = ch THEN p ELSE IndexOf(str, ch, p + 1)

(***************************************************************************)
(* The regular expressions of the source: length of the match at p.        *)
(***************************************************************************)
\* a string pattern: stream.match('{')
ReLit(str, p, lit) == IF HasPrefix(str, p, lit) THEN Len(lit) ELSE NoMatch

\* /^\\begin\s*/ and /^\\end\s*/
ReWord(str, p, word) ==
    IF HasPrefix(str, p, word)
    THEN SkipIn(str, p + Len(word), Whitespace) - p ELSE NoMatch

\* /[^{}]+/ (a match that does not start at the cursor is no match)
ReEnvName(str, p) ==
    LET q == SkipNotIn(str, p, {"{", "}"}) IN IF q > p THEN q - p ELSE NoMatch

\* /^\\title[\[{]/
ReTitleLookahead(str, p) ==
    IF HasPrefix(str, p, "\\title") /\ CharAt(str, p + 6) \in {"[", "{"}
    THEN 7 ELSE NoMatch

\* lookaheadPattern: '^\\' + command + '\s*[\[{]'
ReCommandLookahead(str, p, text) ==
    IF HasPrefix(str, p, "\\" \o text)
    THEN LET q == SkipIn(str, p + 1 + Len(text), Whitespace) IN
         IF CharAt(str, q) \in {"[", "{"} THEN q + 1 - p ELSE NoMatch
    ELSE NoMatch

\* matchPattern: '^\\' + command + '\s*'
ReCommandMatch(str, p, text) == ReWord(str, p, "\\" \o text)

\* a variant of ReEnvBegin that never has the $
ReEnvBegin_Unanchored(str, p, text, single) ==
    IF HasPrefix(str, p, "\\begin")
    THEN LET q == SkipIn(str, p + 6, Whitespace)
             lit == "{" \o text \o "}" IN
         IF HasPrefix(str, q, lit) THEN q + Len(lit) - p ELSE NoMatch
    ELSE NoMatch

\* beginPattern: '^\\begin\s*{' + env + '}' + ('$' if matchOnSingleLine)
ReEnvBegin(str, p, text, single) ==
    IF HasPrefix(str, p, "\\begin")
    THEN LET q == SkipIn(str, p + 6, Whitespace)
             lit == "{" \o text \o "}" IN
         IF HasPrefix(str, q, lit) /\ (single => q + Len(lit) = Len(str))
         THEN q + Len(lit) - p ELSE NoMatch
    ELSE NoMatch

\* endPattern: '^\\end\s*{' + env + '}'
ReEnvEnd(str, p, text) ==
    IF HasPrefix(str, p, "\\end")
    THEN LET q == SkipIn(str, p + 4, Whitespace)
             lit == "{" \o text \o "}" IN
         IF HasPrefix(str, q, lit) THEN q + Len(lit) - p ELSE NoMatch
    ELSE NoMatch

\* /^\\begin\s*{[^}]+}/ and /^\\end\s*{[^}]+}/
ReOtherEnv(str, p, word) ==
    IF HasPrefix(str, p, word)
    THEN LET q == SkipIn(str, p + Len(word), Whitespace)
             e == SkipNotIn(str, q + 1, {"}"}) IN
         IF CharAt(str, q) = "{" /\ e > q + 1 /\ CharAt(str, e) = "}"
         THEN e + 1 - p ELSE NoMatch
    ELSE NoMatch

\* /^\\(?:[a-zA-Z]+|.|\n)/
ReOtherCommand(str, p) ==
    IF CharAt(str, p) # "\\" THEN NoMatch
    ELSE IF CharAt(str, p + 1) \in Letters
         THEN SkipIn(str, p + 1, Letters) - p
    ELSE IF p + 1 < Len(str) THEN 2 ELSE NoMatch

\* /^[\s\u00a0]+$/
ReBlank(str, p) ==
    LET q == SkipIn(str, p, Whitespace) IN
    IF q > p /\ q = Len(str) THEN q - p ELSE NoMatch

\* /^\s*%/
ReLineComment(str, p) ==
    LET q == SkipIn(str, p, Whitespace) IN
    IF CharAt(str, q) = "%" THEN q + 1 - p ELSE NoMatch

\* /^[\^_&~]/
ReMathSpecial(str, p) ==
    IF CharAt(str, p) \in {"^", "_", "&", "~"} THEN 1 ELSE NoMatch

\* /^(?:\d+\.\d*|\d*\.\d+|\d+)/
ReNumber(str, p) ==
    LET a == SkipIn(str, p, Digits)              \* \d* or \d+
        b == SkipIn(str, a + 1, Digits) IN       \* the digits after a dot
    IF a > p /\ CharAt(str, a) = "." THEN b - p
    ELSE IF CharAt(str, a) = "." /\ b > a + 1 THEN b - p
    ELSE IF a > p THEN a - p ELSE NoMatch

\* a variant of ReItem that allows indentation: /^\s*\\item(?: |$)/
ReItem_Indented(str, p) ==
    LET q == SkipIn(str, p, Whitespace) IN
    IF ~HasPrefix(str, q, "\\item") THEN NoMatch
    ELSE IF CharAt(str, q + 5) = " " THEN q + 6 - p
    ELSE IF q + 5 = Len(str) THEN q + 5 - p ELSE NoMatch

\* /^\\item(?: |$)/
ReItem(str, p) ==
    IF ~HasPrefix(str, p, "\\item") THEN NoMatch
    ELSE IF CharAt(str, p + 5) = " " THEN 6
    ELSE IF p + 5 = Len(str) THEN 5 ELSE NoMatch

\* a variant of ReMaketitle without the $: /^\\maketitle/
ReMaketitle_Unanchored(str, p) ==
    IF HasPrefix(str, p, "\\maketitle") THEN 10 ELSE NoMatch

\* /^\\maketitle$/
ReMaketitle(str, p) ==
    IF HasPrefix(str, p, "\\maketitle") /\ p + 10 = Len(str)
    THEN 10 ELSE NoMatch

\* /^\\verb\*?([^a-zA-Z])/: the position of the delimiter (group 1), or
\* NoMatch; the star is optional and given back when no delimiter follows it
ReVerbDelimiterAt(str, p) ==
    IF ~HasPrefix(str, p, "\\verb") THEN NoMatch
    ELSE IF CharAt(str, p + 5) = "*" /\ p + 6 < Len(str)
            /\ CharAt(str, p + 6) \notin Letters THEN p + 6
    ELSE IF p + 5 < Len(str) /\ CharAt(str, p + 5) \notin Letters THEN p + 5
    ELSE NoMatch

\* /^[^\\]+/
ReNoBackslash(str, p) ==
    LET q == SkipNotIn(str, p, {"\\"}) IN IF q > p THEN q - p ELSE NoMatch

\* /^[{}\[\]]/
ReBracket(str, p) ==
    IF CharAt(str, p) \in {"{", "}", "[", "]"} THEN 1 ELSE NoMatch

\* /^[&~]+/
ReAmpTilde(str, p) ==
    LET q == SkipIn(str, p, {"&", "~"}) IN IF q > p THEN q - p ELSE NoMatch

\* /^[^{}\[\]\\$&%~]+/
RePlain(str, p) ==
    LET q == SkipNotIn(str, p, {"{", "}", "[", "]", "\\", "$", "&", "%", "~"})
    IN IF q > p THEN q - p ELSE NoMatch

(***************************************************************************)
(* Command and environment tables.                                         *)
(***************************************************************************)
\* an entry of _MATCH_COMMAND_WITH_ARGUMENT_LOOKAHEADS: the key, which is
\* regular-expression source and the kind of the mark, and the text it matches
Command(key, text) == [key |-> key, text |-> text]

Plain(names) == [n \in DOMAIN names |-> Command(names[n], names[n])]

_bibCommands ==
    <<"cite", "citep", "citet", "footcite", "nocite", "autocite", "autocites",
      "citeauthor", "citeyear", "parencite", "citealt", "textcite", "cref",
      "Cref">>

_commandForPatterns ==
    <<Command("author", "author"),
      Command("chapter\\*", "chapter*"), Command("chapter", "chapter"),
      Command("section", "section"), Command("section\\*", "section*"),
      Command("subsection", "subsection"),
      Command("subsection\\*", "subsection*"),
      Command("subsubsection", "subsubsection"),
      Command("subsubsection\\*", "subsubsection*")>>
    \o Plain(<<"textbf", "textit", "caption", "label", "includegraphics",
               "ref", "input", "include">>)
    \o Plain(_bibCommands)

\* _MATCH_COMMAND_WITH_ARGUMENT_LOOKAHEADS, built by _buildCommandPatterns
_MATCH_COMMAND_WITH_ARGUMENT_LOOKAHEADS ==
    [key \in {_commandForPatterns[n].key : n \in DOMAIN _commandForPatterns} |->
        _commandForPatterns[CHOOSE n \in DOMAIN _commandForPatterns :
                                _commandForPatterns[n].key = key]]

CommandInfo(key) == _MATCH_COMMAND_WITH_ARGUMENT_LOOKAHEADS[key]

\* an environment configuration; kind is Undef when the object has no kind
\* property, single is matchOnSingleLine
Env(key, text, tokenizer, kind, allowBlankLines, single) ==
    [key |-> key, text |-> text, tokenizer |-> tokenizer, kind |-> kind,
     allowBlankLines |-> allowBlankLines, matchOnSingleLine |-> single]

_IGNORED_ENVIRONMENTS ==
    <<Env("verbatim", "verbatim", "_matchVerbatimEnvironment", Undef, TRUE, FALSE),
      Env("Verbatim", "Verbatim", "_matchVerbatimEnvironment", Undef, TRUE, FALSE),
      Env("lstlisting", "lstlisting", "_matchVerbatimEnvironment", Undef, TRUE, FALSE),
      Env("minted", "minted", "_matchVerbatimEnvironment", Undef, TRUE, FALSE),
      Env("comment", "comment", "_matchCommentEnvironment", Undef, TRUE, FALSE)>>

MathEnv(key, text, kind) == Env(key, text, "_matchMath", kind, FALSE, FALSE)

DisplayMathNames ==
    <<"equation", "eqnarray", "align", "gather", "multline", "alignat",
      "xalignat">>

_MATH_ENVIRONMENTS ==
    <<MathEnv("math", "math", "inline-math"),
      MathEnv("displaymath", "displaymath", "display-math")>>
    \o [n \in 1..(2 * Len(DisplayMathNames)) |->
          LET env == DisplayMathNames[(n + 1) \div 2] IN
          IF n % 2 = 1 THEN MathEnv(env, env, "outer-display-math")
          ELSE MathEnv(env \o "\\*", env \o "*", "outer-display-math")]

_TOP_LEVEL_ENVIRONMENTS ==
    <<Env("abstract", "abstract", "_matchText", "abstract", TRUE, FALSE)>>

_LIST_ENVIROMENTS ==
    <<Env("itemize", "itemize", "_matchListContent", "itemize", TRUE, TRUE),
      Env("enumerate", "enumerate", "_matchListContent", "enumerate", TRUE, TRUE)>>

\* a variant of _FIGURE_ENVIRONMENTS in which a blank line ends the figure
_FIGURE_ENVIRONMENTS_NoBlankLines ==
    <<Env("figure", "figure", "_matchFigureContent", "figure", FALSE, FALSE)>>

_FIGURE_ENVIRONMENTS ==
    <<Env("figure", "figure", "_matchFigureContent", "figure", TRUE, FALSE)>>

\* a variant of _TIKZ_ENVIRONMENTS that gives the environment a mark
_TIKZ_ENVIRONMENTS_Marked ==
    <<Env("tikzpicture", "tikzpicture", "_matchTikZ", "tikzpicture", TRUE,
          FALSE)>>

_TIKZ_ENVIRONMENTS ==
    <<Env("tikzpicture", "tikzpicture", "_matchTikZ", Undef, TRUE, FALSE)>>

(***************************************************************************)
(* The context of a call: the stream and the mode state it works on.       *)
(***************************************************************************)
Sol(c) == c.pos = 0
Eol(c) == c.pos >= Len(c.str)
Consume(c, n) == [c EXCEPT !.pos = @ + n]
\* stream.next() / stream.eat: one character unless at the end of the line
Next1(c) == IF Eol(c) THEN c ELSE Consume(c, 1)
SkipToEnd(c) == [c EXCEPT !.pos = Len(c.str)]
Return(c, style) == [c EXCEPT !.ret = style]
Throw(c, what) == [c EXCEPT !.err = what, !.ret = Undef]

_push(c, tokenizer) == [c EXCEPT !.stack = Append(@, tokenizer)]

\* a variant of _pop that also pops the entry underneath
_pop_Twice(c) ==
    [c EXCEPT !.stack = IF Len(@) < 2 THEN <<>> ELSE SubSeq(@, 1, Len(@) - 2)]

_pop(c) ==
    [c EXCEPT !.stack = IF @ = <<>> THEN @ ELSE SubSeq(@, 1, Len(@) - 1)]

\* the wrapper function that _defer pushes
Deferred(tokenizer) == [fn |-> "deferred", tokenizer |-> tokenizer]

_defer(c, tokenizer) == _push(c, Deferred(tokenizer))

\* a variant of _startPos that takes the end of the token
_startPos_AtEnd(c) == Pos(c.line, c.pos)

_startPos(c) == Pos(c.line, c.start)

\* a variant of _currentPos that forgets the line
_currentPos_NoLine(c) == Pos(0, c.pos)

\* stream.start + stream.current().length
_currentPos(c) == Pos(c.line, c.pos)

Top(seq) == seq[Len(seq)]

_openMark(c, kind, openPos) ==
    [c EXCEPT !.openMarks =
                  Append(@, Mark(c.nextId, kind, openPos, _currentPos(c),
                                 NoPos, NoPos, NoMark)),
              !.nextId = @ + 1]

\* a variant of _abandonMark that leaves the open mark where it is
_abandonMark_Keeps(c) == c

_abandonMark(c) ==
    [c EXCEPT !.openMarks = IF @ = <<>> THEN @ ELSE SubSeq(@, 1, Len(@) - 1)]

\* a variant of _closeMark that puts the closed mark in front of the others
_closeMark_Unshift(c, closePos) ==
    IF c.openMarks = <<>> THEN Throw(c, "TypeError")
    ELSE LET mark == Top(c.openMarks)
             rest == SubSeq(c.openMarks, 1, Len(c.openMarks) - 1)
             openParent == IF mark.openParent # NoMark THEN mark.openParent
                           ELSE IF rest = <<>> THEN NoMark ELSE Top(rest)
             newMark == Mark(c.nextId, mark.kind, mark.from, mark.contentFrom,
                             closePos, Pos(c.line, c.pos), openParent) IN
         [c EXCEPT !.openMarks = rest, !.marks = <<newMark>> \o @,
                   !.nextId = @ + 1]

\* a variant of _closeMark that closes the oldest open mark, not the newest
_closeMark_Oldest(c, closePos) ==
    IF c.openMarks = <<>> THEN Throw(c, "TypeError")
    ELSE LET mark == c.openMarks[1]
             rest == SubSeq(c.openMarks, 2, Len(c.openMarks))
             openParent == IF mark.openParent # NoMark THEN mark.openParent
                           ELSE IF rest = <<>> THEN NoMark ELSE Top(rest)
             newMark == Mark(c.nextId, mark.kind, mark.from, mark.contentFrom,
                             closePos, Pos(c.line, c.pos), openParent) IN
         [c EXCEPT !.openMarks = rest, !.marks = Append(@, newMark),
                   !.nextId = @ + 1]

\* a variant of _closeMark that appends the open mark itself, completed
_closeMark_SameObject(c, closePos) ==
    IF c.openMarks = <<>> THEN Throw(c, "TypeError")
    ELSE LET mark == Top(c.openMarks)
             rest == SubSeq(c.openMarks, 1, Len(c.openMarks) - 1)
             openParent == IF mark.openParent # NoMark THEN mark.openParent
                           ELSE IF rest = <<>> THEN NoMark ELSE Top(rest)
             newMark == Mark(mark.id, mark.kind, mark.from, mark.contentFrom,
                             closePos, _currentPos(c), openParent) IN
         [c EXCEPT !.openMarks = rest, !.marks = Append(@, newMark)]

_closeMark(c, closePos) ==
    IF c.openMarks = <<>> THEN Throw(c, "TypeError")
    ELSE LET mark == Top(c.openMarks)
             rest == SubSeq(c.openMarks, 1, Len(c.openMarks) - 1)
             openParent == IF mark.openParent # NoMark THEN mark.openParent
                           ELSE IF rest = <<>> THEN NoMark ELSE Top(rest)
             newMark == Mark(c.nextId, mark.kind, mark.from, mark.contentFrom,
                             closePos, _currentPos(c), openParent) IN
         [c EXCEPT !.openMarks = rest, !.marks = Append(@, newMark),
                   !.nextId = @ + 1]

\* assignments to the checkedProperties of the mark _closeMark returned and
\* of the mark _openMark returned
SetClosedProp(c, name, v) ==
    [c EXCEPT !.marks[Len(c.marks)] = SetProp(@, name, v)]

SetOpenProp(c, name, v) ==
    [c EXCEPT !.openMarks[Len(c.openMarks)] = SetProp(@, name, v)]

\* a variant of _matchBlankLine that does not ask for the start of the line
_matchBlankLine_Anywhere(c) ==
    IF Eol(c) THEN 0 ELSE ReBlank(c.str, c.pos)

\* _matchBlankLine: the length it consumes, NoMatch when it returns false
_matchBlankLine(c) ==
    IF ~Sol(c) THEN NoMatch
    ELSE IF Eol(c) THEN 0 ELSE ReBlank(c.str, c.pos)

(***************************************************************************)
(* Closures that the tokenizers push on state.stack.                       *)
(***************************************************************************)
\* _topLevel itself
TopLevelFn == [fn |-> "_topLevel"]

\* function of _matchAndMark (captures close, closeStyle, abandon, innerMode)
MarkRegionFn(close, closeStyle, abandon, innerMode) ==
    [fn |-> "markRegion", close |-> close, closeStyle |-> closeStyle,
     abandon |-> abandon, innerMode |-> innerMode]

\* function of _matchArgument (captures close, closeStyle, innerMode)
ArgumentFn(close, closeStyle, innerMode) ==
    [fn |-> "argument", close |-> close, closeStyle |-> closeStyle,
     innerMode |-> innerMode]

\* function of _matchGroup (captures innerMode)
GroupFn(innerMode) == [fn |-> "group", innerMode |-> innerMode]

\* function of _matchVerbCommand (captures verbEnd)
VerbFn(verbEnd) == [fn |-> "verb", verbEnd |-> verbEnd]

\* _matchEnvironment of one _matchEnvironments call (captures envConfig, mark)
EnvironmentFn(env, mark) == [fn |-> "_matchEnvironment", env |-> env, mark |-> mark]

\* function that _matchEndDocument pushes
EndDocumentFn == [fn |-> "endDocument"]

\* _matchNext of one _matchSequence call: cell is its variable i; word tells
\* the patterns (\begin or \end) and callback is what runs after the last
SequenceFn(cell, word, callback) ==
    [fn |-> "_matchNext", cell |-> cell, word |-> word, callback |-> callback]

\* the functions handed to _defer by the command matchers
RequiredArgumentFn(kind, openPos) ==
    [fn |-> "requiredArgument", kind |-> kind, openPos |-> openPos]
OptionalArgumentFn == [fn |-> "optionalArgument"]
MarkedOptionalArgumentFn(kind, openPos) ==
    [fn |-> "markedOptionalArgument", kind |-> kind, openPos |-> openPos]

\* the callbacks handed to _matchSequence
NoCallback == [cb |-> "nothing"]
BeginCallback(env, mark, markOpenPos) ==
    [cb |-> "begin", env |-> env, mark |-> mark, markOpenPos |-> markOpenPos]
EndCallback(mark, markClosePos) ==
    [cb |-> "end", mark |-> mark, markClosePos |-> markClosePos]
EndDocumentCallback == [cb |-> "endDocument"]

\* the patterns and tokens of _matchBeginEnvironmentSequence (word = \begin)
\* and _matchEndEnvironmentSequence (word = \end)
SeqPatterns(word) ==
    <<[re |-> "word", lit |-> word], [re |-> "lit", lit |-> "{"],
      [re |-> "envName", lit |-> ""], [re |-> "lit", lit |-> "}"]>>
SeqTokens == <<"tag", "bracket", "keyword", "bracket">>

MatchPattern(str, p, pat) ==
    CASE pat.re = "word" -> ReWord(str, p, pat.lit)
      [] pat.re = "lit" -> ReLit(str, p, pat.lit)
      [] pat.re = "envName" -> ReEnvName(str, p)

\* the callback of a sequence, run after its last token
Callback(cb, c) ==
    CASE cb.cb = "nothing" -> c
      [] cb.cb = "begin" ->
           LET c1 == IF cb.mark
                     THEN LET o == _openMark(c, cb.env.kind, cb.markOpenPos) IN
                          SetOpenProp(o, "openMarksCount", Len(o.openMarks) - 1)
                     ELSE c IN
           _push(c1, EnvironmentFn(cb.env, cb.mark))
      [] cb.cb = "end" ->
           IF ~cb.mark THEN c
           ELSE LET c1 == _closeMark(c, cb.markClosePos) IN
                IF c1.err # "none" THEN c1
                ELSE LET closedMark == Top(c1.marks) IN
                     SetClosedProp(
                       SetClosedProp(
                         SetClosedProp(c1, "openMarksCount", Len(c1.openMarks)),
                         "fromLine", closedMark.from.line),
                       "toLine", closedMark.to.line)
      [] cb.cb = "endDocument" -> _push(c, EndDocumentFn)

\* a variant of ItemNumber that takes the newest mark of the kind, whatever
\* list it is in
RECURSIVE ItemNumber_AnyParent(_, _, _, _)
ItemNumber_AnyParent(marks, x, kind, lastOpenmark) ==
    IF x < 1 THEN 1
    ELSE LET mark == marks[x] IN
         IF mark.from.line < lastOpenmark.from.line THEN 1
         ELSE IF mark.kind = kind THEN mark.checkedProperties.number + 1
         ELSE ItemNumber_AnyParent(marks, x - 1, kind, lastOpenmark)

\* the loop of _matchItemCommand over state.marks, from index x down: the
\* number of the new item
RECURSIVE ItemNumber(_, _, _, _)
ItemNumber(marks, x, kind, lastOpenmark) ==
    IF x < 1 THEN 1
    ELSE LET mark == marks[x] IN
         IF mark.from.line < lastOpenmark.from.line THEN 1
         ELSE IF mark.kind = kind
              THEN IF mark.openParent.id # lastOpenmark.id
                   THEN ItemNumber(marks, x - 1, kind, lastOpenmark)
                   ELSE mark.checkedProperties.number + 1
         ELSE ItemNumber(marks, x - 1, kind, lastOpenmark)

\* index of the first environment whose beginPattern matches, 0 if none
FirstEnv(c, environments) ==
    LET hits == {n \in DOMAIN environments :
                   ReEnvBegin(c.str, c.pos, environments[n].text,
                              environments[n].matchOnSingleLine) # NoMatch} IN
    IF hits = {} THEN 0 ELSE CHOOSE n \in hits : \A k \in hits : n <= k

(***************************************************************************)
(* The tokenizers.                                                         *)
(***************************************************************************)
M(name) == [m |-> name]
CommandWithArgument(command) ==
    [m |-> "_matchCommandWithArgument", command |-> command]
Environments(environments) ==
    [m |-> "_matchEnvironments", environments |-> environments]

\* the alternatives of each tokenizer, in the order of its || chain
TopLevelChain ==
    <<M("_matchTitleCommand"), CommandWithArgument("author"),
      M("_matchCommand"), M("_matchSectioningCommand"),
      Environments(_TOP_LEVEL_ENVIRONMENTS), M("_matchEndDocument"),
      M("_matchText")>>

SectioningChain ==
    <<CommandWithArgument("chapter"), CommandWithArgument("chapter\\*"),
      CommandWithArgument("section"), CommandWithArgument("section\\*"),
      CommandWithArgument("subsection"), CommandWithArgument("subsection\\*"),
      CommandWithArgument("subsubsection"),
      CommandWithArgument("subsubsection\\*")>>

BibChain == [n \in DOMAIN _bibCommands |-> CommandWithArgument(_bibCommands[n])]

\* a variant of TextChain that knows the sectioning commands too
TextChain_Sectioning ==
    <<M("_matchSectioningCommand"),
      CommandWithArgument("textbf"), CommandWithArgument("textit"),
      M("_matchBracketMath"), M("_matchParenMath"),
      CommandWithArgument("ref"), M("_matchBibCommand"),
      CommandWithArgument("label"), CommandWithArgument("input"),
      CommandWithArgument("include"),
      Environments(_FIGURE_ENVIRONMENTS), Environments(_LIST_ENVIROMENTS),
      Environments(_MATH_ENVIRONMENTS), M("_matchVerbCommand"),
      Environments(_IGNORED_ENVIRONMENTS), Environments(_TIKZ_ENVIRONMENTS),
      M("_matchOtherEnvironmentBeginOrEnd"), M("_matchOtherCommand"),
      M("_matchGroup"), M("_matchDollarDollarMath"), M("_matchDollarMath"),
      M("_matchOther")>>

TextChain ==
    <<CommandWithArgument("textbf"), CommandWithArgument("textit"),
      M("_matchBracketMath"), M("_matchParenMath"),
      CommandWithArgument("ref"), M("_matchBibCommand"),
      CommandWithArgument("label"), CommandWithArgument("input"),
      CommandWithArgument("include"),
      Environments(_FIGURE_ENVIRONMENTS), Environments(_LIST_ENVIROMENTS),
      Environments(_MATH_ENVIRONMENTS), M("_matchVerbCommand"),
      Environments(_IGNORED_ENVIRONMENTS), Environments(_TIKZ_ENVIRONMENTS),
      M("_matchOtherEnvironmentBeginOrEnd"), M("_matchOtherCommand"),
      M("_matchGroup"), M("_matchDollarDollarMath"), M("_matchDollarMath"),
      M("_matchOther")>>

\* a variant of MathChain that knows \ref
MathChain_Ref ==
    <<CommandWithArgument("ref"), M("_matchVerbCommand"),
      M("_matchOtherEnvironmentBeginOrEnd"), M("_matchOtherCommand"),
      M("_matchOtherMath")>>

MathChain ==
    <<M("_matchVerbCommand"), M("_matchOtherEnvironmentBeginOrEnd"),
      M("_matchOtherCommand"), M("_matchOtherMath")>>

TikZChain ==
    <<Environments(_TIKZ_ENVIRONMENTS), M("_matchOtherCommand"),
      M("_matchOther")>>

FigureContentChain ==
    <<CommandWithArgument("caption"), M("_matchIncludeGraphics"),
      M("_matchText")>>

ListContentChain == <<M("_matchItemCommand"), M("_matchText")>>

RECURSIVE Try(_, _), OrElse(_, _), Apply(_, _), Call(_, _), Mode(_, _)
RECURSIVE _popAndResume(_), _matchNext(_, _)

\* a || b: r is what a returned, rest the alternatives after it
OrElse(r, rest) ==
    IF r.ret # Undef \/ rest = <<>> THEN r ELSE Try(rest, r)

\* a || b || ...: the first alternative that returns a truthy style
Try(chain, c) ==
    IF chain = <<>> \/ c.err # "none" THEN Return(c, Undef)
    ELSE OrElse(Apply(Head(chain), c), Tail(chain))

\* a variant of _popAndResume that does not call the function underneath
_popAndResume_NoResume(c) == Return(_pop(c), Undef)

_popAndResume(c) ==
    LET c1 == _pop(c) IN
    IF c1.stack = <<>> THEN Throw(c1, "TypeError")
    ELSE Call(Top(c1.stack), c1)

_matchNext(f, c) ==
    LET i == c.heap[f.cell]
        patterns == SeqPatterns(f.word)
        \* stream.match(undefined) matches the empty string
        n == IF i < Len(patterns)
             THEN MatchPattern(c.str, c.pos, patterns[i + 1]) ELSE 0 IN
    IF n = NoMatch THEN Return(c, Undef)
    ELSE LET token == IF i < Len(SeqTokens) THEN SeqTokens[i + 1] ELSE Undef
             c1 == [Consume(c, n) EXCEPT !.heap[f.cell] = i + 1]
             c2 == IF i + 1 < Len(patterns) THEN _defer(c1, f)
                   ELSE Callback(f.callback, c1) IN
         Return(c2, token)

\* a fresh variable i, then the first _matchNext
_matchSequence(c, word, callback) ==
    _matchNext(SequenceFn(Len(c.heap) + 1, word, callback),
               [c EXCEPT !.heap = Append(@, 0)])

_matchAndMark(c, kind, openPos, open, openStyle, close, closeStyle, abandon, innerMode) ==
    IF ReLit(c.str, c.pos, open) # NoMatch
    THEN Return(_push(_openMark(Consume(c, Len(open)), kind, openPos),
                      MarkRegionFn(close, closeStyle, abandon, innerMode)),
                openStyle)
    ELSE Return(c, Undef)

_matchAndMarkOptionalArgument(c, kind, openPos, innerMode) ==
    _matchAndMark(c, kind, openPos, "[", "bracket", "]", "bracket", <<>>,
                  innerMode)

\* a variant of _matchAndMarkRequiredArgument that takes [ for {
_matchAndMarkRequiredArgument_Bracket(c, kind, openPos, innerMode) ==
    _matchAndMark(c, kind, openPos, "[", "bracket", "]", "bracket", <<>>,
                  innerMode)

_matchAndMarkRequiredArgument(c, kind, openPos, innerMode) ==
    _matchAndMark(c, kind, openPos, "{", "bracket", "}", "bracket", <<>>,
                  innerMode)

_matchArgument(c, open, openStyle, close, closeStyle, innerMode) ==
    IF ReLit(c.str, c.pos, open) # NoMatch
    THEN Return(_push(Consume(c, Len(open)),
                      ArgumentFn(close, closeStyle, innerMode)), openStyle)
    ELSE Return(c, Undef)

_matchOptionalArgument(c, innerMode) ==
    _matchArgument(c, "[", "bracket", "]", "bracket", innerMode)

_matchGroup(c, innerMode) ==
    IF CharAt(c.str, c.pos) = "{"
    THEN Return(_push(Consume(c, 1), GroupFn(innerMode)), "bracket")
    ELSE Return(c, Undef)

\* a variant of _matchLineComment that finds no comment
_matchLineComment_Never(c) == Return(c, Undef)

_matchLineComment(c) ==
    IF ReLineComment(c.str, c.pos) # NoMatch
    THEN Return(SkipToEnd(c), "comment") ELSE Return(c, Undef)

_matchOtherMath(c) ==
    LET cmd == ReOtherCommand(c.str, c.pos)
        num == ReNumber(c.str, c.pos) IN
    IF cmd # NoMatch THEN Return(Consume(c, cmd), "tag")
    ELSE IF ReMathSpecial(c.str, c.pos) # NoMatch
         THEN Return(Consume(c, 1), "tag")
    ELSE IF num # NoMatch THEN Return(Consume(c, num), "number")
    ELSE Return(Next1(c), Undef)

_matchTitleCommand(c) ==
    IF ReTitleLookahead(c.str, c.pos) # NoMatch
    THEN LET c1 == Consume(c, 6)
             openPos == _startPos(c1) IN
         Return(_defer(_defer(c1, RequiredArgumentFn("title", openPos)),
                       OptionalArgumentFn), "tag")
    ELSE Return(c, Undef)

_matchCommandWithArgument(c, command) ==
    LET commandInfo == CommandInfo(command) IN
    IF ReCommandLookahead(c.str, c.pos, commandInfo.text) # NoMatch
    THEN LET c1 == Consume(c, ReCommandMatch(c.str, c.pos, commandInfo.text))
             openPos == _startPos(c1) IN
         Return(_defer(c1, RequiredArgumentFn(command, openPos)), "tag")
    ELSE Return(c, Undef)

\* a variant of _matchItemCommand that does not look at the kind of the list
_matchItemCommand_AlwaysItem(c) ==
    LET n == ReItem(c.str, c.pos) IN
    IF Sol(c) /\ n # NoMatch
    THEN LET c1 == Consume(c, n)
             hasOpen == Len(c1.openMarks) > 0
             lastOpenmark == IF hasOpen THEN Top(c1.openMarks) ELSE NoMark
             c2 == _closeMark(_openMark(c1, "item", _startPos(c1)),
                              _currentPos(c1))
             c3 == SetClosedProp(
                     SetClosedProp(
                       SetClosedProp(c2, "kind", "item"), "number", 1),
                     "openMarksCount", Len(c2.openMarks) - 1) IN
         IF ~hasOpen /\ Len(c3.marks) > 1 THEN Throw(c3, "TypeError")
         ELSE Return(
                SetClosedProp(c3, "number",
                    IF hasOpen
                    THEN ItemNumber(c3.marks, Len(c3.marks) - 1, "item",
                                    lastOpenmark)
                    ELSE 1),
                "tag")
    ELSE Return(c, Undef)

_matchItemCommand(c) ==
    LET n == ReItem(c.str, c.pos) IN
    IF Sol(c) /\ n # NoMatch
    THEN LET c1 == Consume(c, n)
             hasOpen == Len(c1.openMarks) > 0
             lastOpenmark == IF hasOpen THEN Top(c1.openMarks) ELSE NoMark
             kind == IF hasOpen /\ lastOpenmark.kind = "enumerate"
                     THEN "enumerate-item" ELSE "item"
             c2 == _closeMark(_openMark(c1, kind, _startPos(c1)),
                              _currentPos(c1))
             c3 == SetClosedProp(
                     SetClosedProp(
                       SetClosedProp(c2, "kind", kind), "number", 1),
                     "openMarksCount", Len(c2.openMarks) - 1) IN
         \* lastOpenmark.from of undefined throws once the loop is entered
         IF ~hasOpen /\ Len(c3.marks) > 1 THEN Throw(c3, "TypeError")
         ELSE Return(
                SetClosedProp(c3, "number",
                    IF hasOpen
                    THEN ItemNumber(c3.marks, Len(c3.marks) - 1, kind,
                                    lastOpenmark)
                    ELSE 1),
                "tag")
    ELSE Return(c, Undef)

_matchVerbCommand(c) ==
    LET d == ReVerbDelimiterAt(c.str, c.pos) IN
    IF d # NoMatch
    THEN Return(_push([c EXCEPT !.pos = d + 1], VerbFn(CharAt(c.str, d))),
                "tag")
    ELSE Return(c, Undef)

_matchVerbatimEnvironment(c) ==
    LET n == ReNoBackslash(c.str, c.pos) IN
    Return(IF n # NoMatch THEN Consume(c, n) ELSE Next1(c), "string")

_matchCommentEnvironment(c) ==
    LET n == ReNoBackslash(c.str, c.pos) IN
    Return(IF n # NoMatch THEN Consume(c, n) ELSE Next1(c), "comment")

_matchIncludeGraphics(c) ==
    LET commandInfo == CommandInfo("includegraphics") IN
    IF ReCommandLookahead(c.str, c.pos, commandInfo.text) # NoMatch
    THEN LET c1 == Consume(c, ReCommandMatch(c.str, c.pos, commandInfo.text))
             openPos == _startPos(c1) IN
         Return(_defer(_defer(c1, RequiredArgumentFn("includegraphics",
                                                     openPos)),
                       MarkedOptionalArgumentFn("includegraphics-optional",
                                                openPos)),
                "tag")
    ELSE Return(c, Undef)

_matchEnvironments(c, environments) ==
    LET n == FirstEnv(c, environments) IN
    IF n = 0 THEN Return(c, Undef)
    ELSE LET envConfig == environments[n]
             mark == envConfig.kind # Undef
             markOpenPos == IF mark THEN _startPos(c) ELSE NoPos IN
         _matchSequence(c, "\\begin",
                        BeginCallback(envConfig, mark, markOpenPos))

_matchEnvironment(f, c) ==
    LET blank == IF f.env.allowBlankLines THEN NoMatch ELSE _matchBlankLine(c)
    IN
    IF blank # NoMatch
    THEN LET c1 == Consume(c, blank) IN
         _popAndResume(IF f.mark THEN _abandonMark(c1) ELSE c1)
    ELSE IF ReEnvEnd(c.str, c.pos, f.env.text) # NoMatch
         THEN _matchSequence(_pop(c), "\\end",
                             EndCallback(f.mark,
                                         IF f.mark THEN _startPos(c)
                                         ELSE NoPos))
    ELSE Mode(f.env.tokenizer, c)

_matchCommand(c, markKind) ==
    IF ReMaketitle(c.str, c.pos) # NoMatch
    THEN LET c1 == Consume(c, ReMaketitle(c.str, c.pos))
             openPos == _startPos(c1) IN
         Return(_closeMark(_openMark(c1, markKind, openPos), openPos), "tag")
    ELSE Return(c, Undef)

_matchOtherEnvironmentBeginOrEnd(c) ==
    IF ReOtherEnv(c.str, c.pos, "\\begin") # NoMatch
    THEN _matchSequence(c, "\\begin", NoCallback)
    ELSE IF ReOtherEnv(c.str, c.pos, "\\end") # NoMatch
         THEN _matchSequence(c, "\\end", NoCallback)
    ELSE Return(c, Undef)

_matchOtherCommand(c) ==
    LET n == ReOtherCommand(c.str, c.pos) IN
    IF n # NoMatch THEN Return(Consume(c, n), "tag") ELSE Return(c, Undef)

_matchDollarDollarMath(c) ==
    _matchAndMark(c, "display-math", _startPos(c), "$$", "keyword",
                  "$$", "keyword", <<>>, "_matchMath")

\* a variant of _matchDollarMath that abandons at nothing
_matchDollarMath_NoAbandon(c) ==
    _matchAndMark(c, "inline-math", _startPos(c), "$", "keyword",
                  "$", "keyword", <<>>, "_matchMath")

_matchDollarMath(c) ==
    _matchAndMark(c, "inline-math", _startPos(c), "$", "keyword",
                  "$", "keyword", <<"$$">>, "_matchMath")

_matchBracketMath(c) ==
    _matchAndMark(c, "display-math", _startPos(c), "\\[", "keyword",
                  "\\]", "keyword", <<>>, "_matchMath")

_matchParenMath(c) ==
    _matchAndMark(c, "inline-math", _startPos(c), "\\(", "keyword",
                  "\\)", "keyword", <<>>, "_matchMath")

_matchEndDocument(c) ==
    IF ReEnvEnd(c.str, c.pos, "document") # NoMatch
    THEN _matchSequence(c, "\\end", EndDocumentCallback)
    ELSE Return(c, Undef)

_matchOther(c) ==
    LET amp == ReAmpTilde(c.str, c.pos)
        plain == RePlain(c.str, c.pos) IN
    IF ReBracket(c.str, c.pos) # NoMatch THEN Return(Consume(c, 1), "bracket")
    ELSE IF amp # NoMatch THEN Return(Consume(c, amp), "tag")
    ELSE IF plain # NoMatch THEN Return(Consume(c, plain), Undef)
    ELSE Return(Next1(c), Undef)

\* one alternative of a || chain
Apply(m, c) ==
    CASE m.m = "_matchTitleCommand" -> _matchTitleCommand(c)
      [] m.m = "_matchCommandWithArgument" ->
           _matchCommandWithArgument(c, m.command)
      [] m.m = "_matchCommand" -> _matchCommand(c, "maketitle")
      [] m.m = "_matchSectioningCommand" -> Try(SectioningChain, c)
      [] m.m = "_matchEnvironments" -> _matchEnvironments(c, m.environments)
      [] m.m = "_matchEndDocument" -> _matchEndDocument(c)
      [] m.m = "_matchText" -> Mode("_matchText", c)
      [] m.m = "_matchBracketMath" -> _matchBracketMath(c)
      [] m.m = "_matchParenMath" -> _matchParenMath(c)
      [] m.m = "_matchBibCommand" -> Try(BibChain, c)
      [] m.m = "_matchVerbCommand" -> _matchVerbCommand(c)
      [] m.m = "_matchOtherEnvironmentBeginOrEnd" ->
           _matchOtherEnvironmentBeginOrEnd(c)
      [] m.m = "_matchOtherCommand" -> _matchOtherCommand(c)
      [] m.m = "_matchGroup" -> _matchGroup(c, "_matchText")
      [] m.m = "_matchDollarDollarMath" -> _matchDollarDollarMath(c)
      [] m.m = "_matchDollarMath" -> _matchDollarMath(c)
      [] m.m = "_matchOther" -> _matchOther(c)
      [] m.m = "_matchOtherMath" -> _matchOtherMath(c)
      [] m.m = "_matchItemCommand" -> _matchItemCommand(c)
      [] m.m = "_matchIncludeGraphics" -> _matchIncludeGraphics(c)

\* a tokenizer function called by name (innerMode, envConfig.tokenizer)
Mode(name, c) ==
    CASE name = "_matchVerbatimEnvironment" -> _matchVerbatimEnvironment(c)
      [] name = "_matchCommentEnvironment" -> _matchCommentEnvironment(c)
      [] OTHER ->
           Try(CASE name = "_topLevel" -> TopLevelChain
                 [] name = "_matchText" -> TextChain
                 [] name = "_matchMath" -> MathChain
                 [] name = "_matchTikZ" -> TikZChain
                 [] name = "_matchFigureContent" -> FigureContentChain
                 [] name = "_matchListContent" -> ListContentChain, c)

\* function pushed by _matchAndMark
MarkRegion(f, c) ==
    LET blank == _matchBlankLine(c) IN
    IF blank # NoMatch
    THEN _popAndResume(_abandonMark(Consume(c, blank)))
    ELSE IF \E n \in DOMAIN f.abandon :
                ReLit(c.str, c.pos, f.abandon[n]) # NoMatch
         THEN _popAndResume(_abandonMark(c))
    ELSE IF ReLit(c.str, c.pos, f.close) # NoMatch
         THEN LET c1 == Consume(c, Len(f.close)) IN
              Return(_pop(_closeMark(c1, _startPos(c1))), f.closeStyle)
    ELSE Mode(f.innerMode, c)

\* function pushed by _matchArgument
Argument(f, c) ==
    LET blank == _matchBlankLine(c) IN
    IF blank # NoMatch THEN Return(_pop(Consume(c, blank)), Undef)
    ELSE IF ReLit(c.str, c.pos, f.close) # NoMatch
         THEN Return(_pop(Consume(c, Len(f.close))), f.closeStyle)
    ELSE Mode(f.innerMode, c)

\* function pushed by _matchGroup
Group(f, c) ==
    IF CharAt(c.str, c.pos) = "}" THEN Return(_pop(Consume(c, 1)), "bracket")
    ELSE Mode(f.innerMode, c)

\* a variant of Verb that gives up at the end of the line
Verb_OneLine(f, c) ==
    LET found == IndexOf(c.str, f.verbEnd, c.pos) IN
    IF ReLit(c.str, c.pos, f.verbEnd) # NoMatch
    THEN Return(_pop(Consume(c, 1)), "tag")
    ELSE IF found < Len(c.str) THEN Return([c EXCEPT !.pos = found], "string")
    ELSE Return(_pop(SkipToEnd(c)), "string")

\* function pushed by _matchVerbCommand
Verb(f, c) ==
    LET found == IndexOf(c.str, f.verbEnd, c.pos) IN
    IF ReLit(c.str, c.pos, f.verbEnd) # NoMatch
    THEN Return(_pop(Consume(c, 1)), "tag")
    ELSE IF found < Len(c.str) THEN Return([c EXCEPT !.pos = found], "string")
    ELSE Return(SkipToEnd(c), "string")

\* the function a deferred wrapper calls after it has popped itself
Deferrable(t, c) ==
    CASE t.fn = "requiredArgument" ->
           _matchAndMarkRequiredArgument(c, t.kind, t.openPos, "_matchText")
      [] t.fn = "optionalArgument" -> _matchOptionalArgument(c, "_matchText")
      [] t.fn = "markedOptionalArgument" ->
           _matchAndMarkOptionalArgument(c, t.kind, t.openPos, "_matchText")
      [] t.fn = "_matchNext" -> _matchNext(t, c)

\* a variant of EndDocument that ends with the line
EndDocument_OneLine(c) == Return(SkipToEnd(_pop(c)), "comment")

\* the function that the callback of _matchEndDocument pushes
EndDocument(c) == Return(SkipToEnd(c), "comment")

\* state.stack[state.stack.length - 1](stream, state)
Call(f, c) ==
    CASE f.fn = "_topLevel" -> Mode("_topLevel", c)
      [] f.fn = "deferred" -> Deferrable(f.tokenizer, _pop(c))
      [] f.fn = "markRegion" -> MarkRegion(f, c)
      [] f.fn = "argument" -> Argument(f, c)
      [] f.fn = "group" -> Group(f, c)
      [] f.fn = "verb" -> Verb(f, c)
      [] f.fn = "_matchEnvironment" -> _matchEnvironment(f, c)
      [] f.fn = "endDocument" -> EndDocument(c)

_startNewLine(c) == [c EXCEPT !.line = @ + 1]

\* a variant of CancelNewLine that leaves the line as it is
CancelNewLine_Never(c) == c

\* the end of _token: c is the context when result has been computed
CancelNewLine(c) ==
    IF c.err = "none" /\ Sol(c) /\ ~Eol(c) THEN [c EXCEPT !.line = @ - 1]
    ELSE c

\* the middle of _token: c is what _matchLineComment returned
ModeResult(c) ==
    IF c.ret # Undef THEN c
    ELSE IF c.stack # <<>> THEN Call(Top(c.stack), c)
    ELSE Throw(c, "empty stack")

\* _token(stream, state)
_token(c) ==
    CancelNewLine(
        ModeResult(_matchLineComment(IF Sol(c) THEN _startNewLine(c) ELSE c)))

(***************************************************************************)
(* The host: it hands over a document line by line, calls blankLine for an *)
(* empty line and token until the end of any other line.                   *)
(***************************************************************************)
\* this.startState()
startState == [stack |-> <<TopLevelFn>>, line |-> 0 - 1, openMarks |-> <<>>,
               marks |-> <<>>]

\* new CodeMirror.StringStream(line)
StringStream(line) == [string |-> line, pos |-> 0, start |-> 0]

\* the context of a call of token on strm, whose start the host has moved to
\* its pos
Context(st, hp, id, strm) ==
    [str |-> strm.string, start |-> strm.pos, pos |-> strm.pos,
     stack |-> st.stack, line |-> st.line, openMarks |-> st.openMarks,
     marks |-> st.marks, heap |-> hp, nextId |-> id, ret |-> Undef,
     err |-> "none"]

StateOf(c) == [stack |-> c.stack, line |-> c.line, openMarks |-> c.openMarks,
               marks |-> c.marks]

StreamOf(c) == [string |-> c.str, pos |-> c.pos, start |-> c.start]

\* this.token(stream, state)
token(st, hp, id, strm) == _token(Context(st, hp, id, strm))

\* this.blankLine(state): what _token returns is not returned
blankLine(st, hp, id) ==
    [_token(Context(st, hp, id, StringStream(""))) EXCEPT !.ret = Undef]

(***************************************************************************)
(* The documents the host types.  A family is a sequence of slots, the     *)
(* n-th slot the set of texts its n-th line may have; "" is an empty line. *)
(***************************************************************************)
\* documents of MaxLines lines, each any of lines
Free(lines) == [n \in 1..MaxLines |-> lines]

PreambleLines ==
    {"", "\\title[x]{y}", "\\title[", "]{y}", "\\author{x}", "\\maketitle",
     "$x$\\maketitle", "\\maketitle y", "\\section[x]{y}"}

MathLines ==
    {"", " \t", " x ", "x $y", "$", "$a $$b$$", "\\section{t $x", "$}",
     "\\(x\\)\\[y\\]"}

ShieldLines ==
    {"", "\\textbf{{", "}", "$\\verb|x", "|", "\\textbf{\\begin{verbatim}",
     "\\end{verbatim}}", "\\ref{x}\\cite{y}"}

EnvironmentLines ==
    {"", "\\begin{equation}", "\\alpha^2 1.5", "\\end{equation}",
     "\\textit{\\begin{equation}", "\\end{equation}}", "\\begin{abstract}",
     "\\end{abstract}", "\\begin{equation} x"}

FigureLines ==
    {"", "\\begin{figure}", "\\includegraphics[a]{b}", "\\includegraphics{b}",
     "\\caption{$x$}", "\\end{figure}", "\\label{x}"}

SequenceLines ==
    {"", "\\begin{%}", "x}", "\\begin{foo}", "\\end{foo}", "% c",
     "\\end{document}", "\\textbf{abc}"}

VerbatimLines ==
    {"", "\\begin{verbatim}", "\\textbf{}\\", "\\end{verbatim}",
     "\\begin{comment}", "\\begin{tikzpicture}", "\\end{tikzpicture}",
     "\\verb*+x", "\\verb|%|"}

ListDocuments ==
    <<{"\\begin{enumerate}", "\\begin{itemize}", "\\begin{itemize} x"},
      {"\\item x", "\\item", " \\item x", "x \\item"},
      {"\\begin{itemize}", "\\begin{enumerate}", "$x$", "\\item y"},
      {"\\item x", ""},
      {"\\end{itemize}", "\\end{enumerate} x", "\\item z"},
      {"\\item x"},
      {"\\end{enumerate}", "\\end{itemize}"}>>

CommandLines ==
    {"", "\\section {foo}", "\\title {x}", "\\title[s]{l}",
     "\\authorblockN{N}", "\\titlestyle{f}", "\\textbf{a", "b}"}

Corpora ==
    <<Free(PreambleLines), Free(MathLines), Free(ShieldLines),
      Free(EnvironmentLines), Free(FigureLines), Free(SequenceLines),
      Free(VerbatimLines), ListDocuments, Free(CommandLines)>>

\* the families of the restart experiment
RestartCorpora == {2, 6}

\* the texts the next line may have
NextLines ==
    IF phase = "rerun"
    THEN IF fed < Len(tail) THEN {tail[fed + 1]} ELSE {}
    ELSE IF fed < Len(Corpora[corpus]) THEN Corpora[corpus][fed + 1] ELSE {}

AtLineEnd == stream.pos >= Len(stream.string)

\* the token a call emitted, as the host sees it: calls that consume nothing
\* emit none
Emitted(c, n) ==
    IF c.pos > c.start
    THEN <<[line |-> n, from |-> c.start, to |-> c.pos, style |-> c.ret]>>
    ELSE <<>>

\* the values after a call that ended in context c
Called(c, how) ==
    /\ state' = StateOf(c)
    /\ heap' = c.heap
    /\ nextId' = c.nextId
    /\ result' = c.ret
    /\ error' = c.err
    /\ lastCall' = how
    /\ outA' = IF phase = "saved" THEN outA \o Emitted(c, Len(tail')) ELSE outA
    /\ outB' = IF phase = "rerun" THEN outB \o Emitted(c, fed') ELSE outB

\* the host starts a line that is not empty
Line(l) ==
    /\ error = "none" /\ AtLineEnd
    /\ l \in NextLines /\ l # ""
    /\ stream' = StringStream(l)
    /\ fed' = fed + 1
    /\ lastCall' = "line"
    /\ tail' = IF phase = "saved" THEN Append(tail, l) ELSE tail
    /\ UNCHANGED <<state, heap, nextId, corpus, result, error, saved, phase,
                   outA, outB, finalA>>

\* the host meets an empty line: mode.blankLine(state)
BlankLine ==
    /\ error = "none" /\ AtLineEnd
    /\ "" \in NextLines
    /\ stream' = StringStream("")
    /\ fed' = fed + 1
    /\ tail' = IF phase = "saved" THEN Append(tail, "") ELSE tail
    /\ Called(blankLine(state, heap, nextId), "blankLine")
    /\ UNCHANGED <<corpus, saved, phase, finalA>>

\* the host asks for the next token of the line: mode.token(stream, state)
Token ==
    /\ error = "none" /\ ~AtLineEnd
    /\ UNCHANGED <<corpus, fed, saved, phase, tail, finalA>>
    /\ LET c == token(state, heap, nextId, stream) IN
       /\ stream' = StreamOf(c)
       /\ Called(c, "token")

\* the host copies the state at the end of a line (CodeMirror's copyState:
\* the arrays are copied, what they hold is shared)
Save ==
    /\ error = "none" /\ AtLineEnd
    /\ phase = "run" /\ fed >= 1
    /\ saved' = state
    /\ phase' = "saved"
    /\ UNCHANGED <<state, heap, nextId, stream, corpus, fed, lastCall, result,
                   error, tail, outA, outB, finalA>>

\* the host goes back to its copy and tokenizes the lines after it again
Restart ==
    /\ error = "none" /\ AtLineEnd
    /\ phase = "saved" /\ tail # <<>>
    /\ finalA' = state
    /\ state' = saved
    /\ phase' = "rerun"
    /\ fed' = 0
    /\ stream' = StringStream("")
    /\ lastCall' = "none"
    /\ result' = Undef
    /\ UNCHANGED <<heap, nextId, corpus, error, saved, tail, outA, outB>>

InitWith(families) ==
    /\ state = startState
    /\ heap = <<>>
    /\ nextId = 1
    /\ stream = StringStream("")
    /\ corpus \in families
    /\ fed = 0
    /\ lastCall = "none"
    /\ result = Undef
    /\ error = "none"
    /\ saved = startState
    /\ phase = "run"
    /\ tail = <<>>
    /\ outA = <<>>
    /\ outB = <<>>
    /\ finalA = startState

Init == InitWith(DOMAIN Corpora)

Next ==
    \/ \E l \in NextLines : Line(l)
    \/ BlankLine
    \/ Token

Spec == Init /\ [][Next]_vars

\* the host of the restart experiment
InitRestart == InitWith(RestartCorpora)

NextRestart ==
    \/ \E l \in NextLines : Line(l)
    \/ BlankLine
    \/ Token
    \/ Save
    \/ Restart

SpecRestart == InitRestart /\ [][NextRestart]_vars

(***************************************************************************)
(* Whole lines, as the test file's parseLine tokenizes them.               *)
(***************************************************************************)
\* the mode state with what the closures and the marks share
Machine(st, hp, id) == [out |-> <<>>, st |-> st, hp |-> hp, id |-> id]

RECURSIVE Tokens(_, _, _, _)
\* the loop of parseLine: the styles of the rest of the line of strm
Tokens(st, hp, id, strm) ==
    IF strm.pos >= Len(strm.string) THEN Machine(st, hp, id)
    ELSE LET c == token(st, hp, id, strm)
             r == Tokens(StateOf(c), c.heap, c.nextId, StreamOf(c)) IN
         [r EXCEPT !.out = <<c.ret>> \o @]

parseLine(m, line) ==
    IF line = ""
    THEN LET c == blankLine(m.st, m.hp, m.id) IN
         [Machine(StateOf(c), c.heap, c.nextId) EXCEPT !.out = <<Undef>>]
    ELSE Tokens(m.st, m.hp, m.id, StringStream(line))


(***************************************************************************)
(* The claims.                                                             *)
(***************************************************************************)
\* a mark without the identity of its object and of its parent's
MarkValue(m) ==
    [kind |-> m.kind, from |-> m.from, to |-> m.to,
     contentFrom |-> m.contentFrom, contentTo |-> m.contentTo,
     checkedProperties |-> m.checkedProperties,
     openParent |-> IF m.openParent = NoMark THEN <<>>
                    ELSE <<[kind |-> m.openParent.kind,
                            from |-> m.openParent.from,
                            contentFrom |-> m.openParent.contentFrom]>>]

MarkValues(marks) == [n \in DOMAIN marks |-> MarkValue(marks[n])]

\* the copy has tokenized every line that the original state was given
RerunDone == phase = "rerun" /\ fed = Len(tail) /\ AtLineEnd

\* C1: restartability.  When the copy of the state taken after line k has
\* tokenized lines k+1..N, it has emitted the styles the uninterrupted run
\* emitted for them and holds the same marks, although the original state
\* was driven to the end of the document in between.
C1_RestartYieldsSameTokensAndMarks ==
    RerunDone =>
        /\ outB = outA
        /\ MarkValues(state.marks) = MarkValues(finalA.marks)

\* the calls of token so far have thrown nothing
NoError == error = "none"

\* C2: between the calls of the host the stack is never empty, _topLevel is
\* its bottom entry, and no call of token has thrown 'empty stack'.
C2_StackKeepsTopLevel ==
    /\ state.stack # <<>>
    /\ state.stack[1] = TopLevelFn
    /\ error # "empty stack"

\* a token call has closed a mark and popped back to _topLevel alone
C2_Witness ==
    /\ lastCall = "token"
    /\ state.stack = <<TopLevelFn>>
    /\ state.marks # <<>>
    /\ NoError

\* C3: a call of token on a stream that is not at its end returns only after
\* it has consumed at least one character.
C3_TokenConsumes ==
    lastCall = "token" => stream.pos > stream.start

\* the inner and the outer range of a closed mark are in order
WellFormed(m) ==
    /\ PosLT(m.from, m.to)
    /\ PosLE(m.from, m.contentFrom)
    /\ PosLE(m.contentFrom, m.contentTo)
    /\ PosLE(m.contentTo, m.to)

\* C4: every closed mark has from < to, from <= contentFrom and
\* contentFrom <= contentTo <= to.
C4_ClosedMarksWellFormed ==
    \A n \in DOMAIN state.marks : WellFormed(state.marks[n])

\* C5: the closed marks are in closing order: their to positions and their
\* contentTo positions are weakly ascending.
C5_MarksInClosingOrder ==
    \A i, j \in DOMAIN state.marks :
        i < j => /\ PosLE(state.marks[i].to, state.marks[j].to)
                 /\ PosLE(state.marks[i].contentTo, state.marks[j].contentTo)

\* two closed marks, the second closed on a later line than the first
C5_Witness ==
    /\ Len(state.marks) >= 2
    /\ state.marks[1].to.line < state.marks[Len(state.marks)].to.line

\* C6: no two closed marks have the same outer range, and no two have the
\* same inner range.
C6_RangesDiffer ==
    \A i, j \in DOMAIN state.marks :
        i # j => /\ <<state.marks[i].from, state.marks[i].to>>
                      # <<state.marks[j].from, state.marks[j].to>>
                 /\ <<state.marks[i].contentFrom, state.marks[i].contentTo>>
                      # <<state.marks[j].contentFrom, state.marks[j].contentTo>>

\* the marks of \includegraphics[a]{b}: two closed marks that start at the
\* same place
C6_Witness ==
    \E i, j \in DOMAIN state.marks :
        /\ i # j
        /\ state.marks[i].from = state.marks[j].from
        /\ state.marks[i].kind = "includegraphics-optional"
        /\ state.marks[j].kind = "includegraphics"

\* the outer ranges of a and b are disjoint
Disjoint(a, b) == PosLE(a.to, b.from) \/ PosLE(b.to, a.from)

\* the outer range of a contains that of b
Contains(a, b) == PosLE(a.from, b.from) /\ PosLE(b.to, a.to)

\* C7: the outer ranges of any two closed marks are disjoint or nested.
C7_MarksNestOrAreDisjoint ==
    \A i, j \in DOMAIN state.marks :
        i # j => \/ Disjoint(state.marks[i], state.marks[j])
                 \/ Contains(state.marks[i], state.marks[j])
                 \/ Contains(state.marks[j], state.marks[i])

\* a closed mark strictly inside another one
C7_Witness ==
    \E i, j \in DOMAIN state.marks :
        /\ i # j
        /\ Contains(state.marks[i], state.marks[j])
        /\ PosLT(state.marks[i].from, state.marks[j].from)
        /\ PosLT(state.marks[j].to, state.marks[i].to)

\* the kinds the interface lists
ListedKinds ==
    {"title", "section", "section\\*", "subsection", "subsection\\*",
     "subsubsection", "subsubsection\\*", "chapter", "chapter\\*", "textbf",
     "textit", "caption", "label", "ref", "input", "include",
     "includegraphics", "includegraphics-optional", "inline-math",
     "display-math", "outer-display-math", "abstract", "figure", "itemize",
     "enumerate", "item", "enumerate-item", "maketitle"}
        \cup {_bibCommands[n] : n \in DOMAIN _bibCommands}

\* the kinds of the marks the state holds, open and closed
KindsHeld ==
    {state.openMarks[n].kind : n \in DOMAIN state.openMarks}
        \cup {state.marks[n].kind : n \in DOMAIN state.marks}

\* C8 as stated: the kind of every mark in openMarks or marks is one of the
\* listed kinds.
C8_KindsAreListed == KindsHeld \subseteq ListedKinds

\* C8, amended: the kind of every mark in openMarks or marks is one of the
\* listed kinds or author.
C8_KindsAreListedOrAuthor == KindsHeld \subseteq ListedKinds \cup {"author"}

\* the argument of \author has been marked
C8_Witness == \E n \in DOMAIN state.marks : state.marks[n].kind = "author"

\* stack, openMarks and marks of two states are the same
SameButLine(a, b) ==
    /\ a.stack = b.stack
    /\ a.openMarks = b.openMarks
    /\ a.marks = b.marks

\* blankLine called on the state that the call ending in once left
BlankLineAgain(once) == blankLine(StateOf(once), once.heap, once.nextId)

\* a second blankLine changes nothing but the line of what the first left
SecondChangesNothing(once) ==
    SameButLine(StateOf(once), StateOf(BlankLineAgain(once)))

\* C9: blankLine called twice in succession at the end of a line leaves
\* stack, openMarks and marks after the second call as they were after the
\* first.
C9_BlankLineIdempotent ==
    (NoError /\ AtLineEnd) =>
        SecondChangesNothing(blankLine(state, heap, nextId))

\* the kinds of the math marks and of the marks of command arguments
MathKinds == {"inline-math", "display-math", "outer-display-math"}

ArgumentKinds ==
    {"title", "includegraphics-optional"}
        \cup {_commandForPatterns[n].key : n \in DOMAIN _commandForPatterns}

\* C10: after an empty line openMarks holds no math mark and no mark of a
\* command argument.
C10_BlankLineAbandonsMathAndArguments ==
    lastCall = "blankLine" =>
        \A n \in DOMAIN state.openMarks :
            state.openMarks[n].kind \notin MathKinds \cup ArgumentKinds

\* a is what is left of b after entries have been taken off its end
IsPrefix(a, b) == Len(a) <= Len(b) /\ a = SubSeq(b, 1, Len(a))

\* the host has just called blankLine
BlankStep == lastCall' = "blankLine" /\ fed' = fed + 1

\* the function of a math environment is on top of the stack
MathEnvironmentOnTop ==
    /\ Top(state.stack).fn = "_matchEnvironment"
    /\ \E n \in DOMAIN _MATH_ENVIRONMENTS :
           _MATH_ENVIRONMENTS[n] = Top(state.stack).env

\* the line is styled as the end of an environment that has no function on
\* the stack, and leaves the marks of st as they are
StyledAsOtherEnd(r, st) ==
    /\ r.out = <<"tag", "bracket", "keyword", "bracket">>
    /\ r.st.marks = st.marks
    /\ r.st.openMarks = st.openMarks

\* C11: an empty line met while the function of a math environment is on top
\* of the stack pops it and takes its mark off openMarks, appends nothing to
\* marks, and an \end of that environment on the next line is styled as any
\* other environment end and makes no mark.
C11_BlankLineAbandonsMathEnvironment ==
    [][(BlankStep /\ MathEnvironmentOnTop) =>
          /\ state'.marks = state.marks
          /\ Len(state'.stack) < Len(state.stack)
          /\ IsPrefix(state'.stack, state.stack)
          /\ Len(state'.openMarks) < Len(state.openMarks)
          /\ IsPrefix(state'.openMarks, state.openMarks)
          /\ StyledAsOtherEnd(
                 parseLine(Machine(state', heap', nextId'),
                           "\\end{" \o Top(state.stack).env.text \o "}"),
                 state')]_vars

\* an empty line has abandoned the only mark opened so far, that of
\* \begin{equation}
C11_Witness ==
    /\ corpus = 4 /\ lastCall = "blankLine"
    /\ nextId = 2
    /\ state.openMarks = <<>> /\ state.marks = <<>>
    /\ state.stack = <<TopLevelFn>>

\* the host has just called token
TokenStep == lastCall' = "token" /\ fed' = fed

\* the function of a region opened by a single $ is on top of the stack
DollarMathOnTop ==
    /\ Top(state.stack).fn = "markRegion"
    /\ Top(state.stack).close = "$"

\* the rest of the line starts with lit
NextIs(lit) == ReLit(stream.string, stream.pos, lit) # NoMatch

\* the entries of seq but the last
Front(seq) == SubSeq(seq, 1, Len(seq) - 1)

\* C12: a call of token that meets $$ while the function of a region opened
\* by a single $ is on top of the stack abandons the inline-math mark,
\* appends nothing to marks, and opens a display-math region whose from is
\* the place of the first $ of the $$.
C12_DollarDollarAbandonsInlineMath ==
    [][(TokenStep /\ DollarMathOnTop /\ NextIs("$$")) =>
          /\ result' = "keyword"
          /\ stream'.pos = stream.pos + 2
          /\ state'.marks = state.marks
          /\ Front(state'.openMarks) = Front(state.openMarks)
          /\ Top(state.openMarks).kind = "inline-math"
          /\ Top(state'.openMarks).kind = "display-math"
          /\ Top(state'.openMarks).from = Pos(state'.line, stream.pos)
          /\ Top(state'.openMarks).contentFrom = Pos(state'.line, stream.pos + 2)
          /\ Front(state'.stack) = Front(state.stack)
          /\ Top(state'.stack).fn = "markRegion"
          /\ Top(state'.stack).close = "$$"]_vars

\* the $$ of the line $a $$b$$ has replaced the mark of its first $
C12_Witness ==
    /\ stream.string = "$a $$b$$" /\ stream.pos = 5
    /\ lastCall = "token"
    /\ state.openMarks # <<>>
    /\ Top(state.openMarks).kind = "display-math"
    /\ Top(state.openMarks).from.ch = 3
    /\ \A n \in DOMAIN state.marks : state.marks[n].to.line < state.line

\* what a closed mark keeps of the open mark it replaces
OpenVersion(m) == [kind |-> m.kind, from |-> m.from, contentFrom |-> m.contentFrom]

\* the closed mark b was opened when a was the innermost open mark
OpenedIn(a, b) ==
    b.openParent # NoMark /\ OpenVersion(b.openParent) = OpenVersion(a)

\* C13: a mark opened while another was the innermost open mark comes before
\* it in marks once both are closed, and its outer range lies in the inner
\* range of the other; while the other is still open, the mark starts in
\* what it has of an inner range.
C13_InnerMarksCloseFirst ==
    /\ \A i, j \in DOMAIN state.marks :
           OpenedIn(state.marks[j], state.marks[i]) =>
               /\ i < j
               /\ PosLE(state.marks[j].contentFrom, state.marks[i].from)
               /\ PosLE(state.marks[i].to, state.marks[j].contentTo)
    /\ \A i \in DOMAIN state.marks, n \in DOMAIN state.openMarks :
           state.marks[i].openParent = state.openMarks[n] =>
               \A k \in 1..n :
                   PosLE(state.openMarks[k].contentFrom, state.marks[i].from)

\* math closed inside the argument of \section, which was closed after it
C13_Witness ==
    \E i, j \in DOMAIN state.marks :
        /\ OpenedIn(state.marks[j], state.marks[i])
        /\ state.marks[i].kind = "inline-math"
        /\ state.marks[j].kind = "section"

\* the innermost open mark of openMarks, absent when there is none
Innermost(openMarks) == IF openMarks = <<>> THEN NoMark ELSE Top(openMarks)

\* an open mark that a step keeps stays where it is, on the marks it was
\* opened on
OpenMarksStayInPlace ==
    \A n \in DOMAIN state.openMarks, k \in DOMAIN state'.openMarks :
        state.openMarks[n].id = state'.openMarks[k].id =>
            /\ n = k
            /\ SubSeq(state'.openMarks, 1, k) = SubSeq(state.openMarks, 1, n)

\* the step has closed the innermost open mark
ClosesInnermost(closed) ==
    /\ state.openMarks # <<>>
    /\ OpenVersion(closed) = OpenVersion(Top(state.openMarks))
    /\ state'.openMarks = Front(state.openMarks)
    /\ closed.openParent = Innermost(state'.openMarks)

\* the step has opened a mark and closed it at once (\item, \maketitle)
OpensAndCloses(closed) ==
    /\ closed.from.line = state'.line
    /\ closed.to = Pos(state'.line, stream'.pos)
    /\ state'.openMarks = state.openMarks
    /\ closed.openParent = Innermost(state.openMarks)

\* C14: the openParent of a closed mark is the mark that was the innermost
\* open one when the mark was opened, absent if there was none: what lies
\* under an open mark never changes while it is open, and closing takes the
\* parent from under the innermost open mark.
C14_OpenParentIsInnermostAtOpening ==
    [][/\ OpenMarksStayInPlace
       /\ state'.marks # state.marks =>
              /\ Front(state'.marks) = state.marks
              /\ \/ ClosesInnermost(Top(state'.marks))
                 \/ OpensAndCloses(Top(state'.marks))]_vars

\* math closed inside an argument that is still open
C14_Witness ==
    \E i \in DOMAIN state.marks :
        /\ state.marks[i].kind = "inline-math"
        /\ state.openMarks # <<>>
        /\ state.marks[i].openParent = Top(state.openMarks)

ItemKinds == {"item", "enumerate-item"}

\* the marks of the items of the list of the n-th closed mark, it being one,
\* up to that mark
ItemsBefore(n) ==
    {k \in 1..n : /\ state.marks[k].kind \in ItemKinds
                  /\ state.marks[k].openParent = state.marks[n].openParent}

\* C15: the mark of the k-th \item of a list has number k, however many
\* items of nested or earlier lists and other marks lie between the items.
C15_ItemsAreNumberedInTheirList ==
    \A n \in DOMAIN state.marks :
        state.marks[n].kind \in ItemKinds =>
            state.marks[n].checkedProperties.number
                = Cardinality(ItemsBefore(n))

\* the second item of a list, after an item of a list nested in it
C15_Witness ==
    \E n \in DOMAIN state.marks, k \in DOMAIN state.marks :
        /\ k < n
        /\ state.marks[n].kind \in ItemKinds
        /\ state.marks[k].kind \in ItemKinds
        /\ state.marks[k].openParent # state.marks[n].openParent
        /\ state.marks[n].checkedProperties.number = 2
        /\ state.marks[n].from.line > state.marks[k].from.line
        /\ state.marks[k].checkedProperties.number = 1
        /\ \E j \in 1..(k - 1) :
               state.marks[j].openParent = state.marks[n].openParent

\* C16: the openParent of every item mark is the open mark of an itemize or
\* enumerate environment; the kind of the mark, which is also its
\* checkedProperties.kind, is enumerate-item when the parent is an enumerate
\* and item when it is an itemize.
C16_ItemsBelongToLists ==
    \A n \in DOMAIN state.marks :
        state.marks[n].kind \in ItemKinds =>
            /\ state.marks[n].openParent # NoMark
            /\ state.marks[n].openParent.kind \in {"itemize", "enumerate"}
            /\ state.marks[n].kind
                   = IF state.marks[n].openParent.kind = "enumerate"
                     THEN "enumerate-item" ELSE "item"
            /\ state.marks[n].checkedProperties.kind = state.marks[n].kind

\* an item of an enumerate nested in an itemize that has an item too
C16_Witness ==
    \E n \in DOMAIN state.marks, k \in DOMAIN state.marks :
        /\ state.marks[n].kind = "enumerate-item"
        /\ state.marks[k].kind = "item"
        /\ Len(state.openMarks) >= 2
        /\ state.marks[n].openParent = state.openMarks[2]
        /\ state.marks[k].openParent = state.openMarks[1]

\* the function of a list environment is on top of the stack
ListOnTop ==
    /\ Top(state.stack).fn = "_matchEnvironment"
    /\ Top(state.stack).env.tokenizer = "_matchListContent"

\* the step has appended the mark of an item
ItemMarked ==
    /\ state'.marks # state.marks
    /\ Top(state'.marks).kind \in ItemKinds

\* the line starts with \item and a space, or is \item
ItemStartsLine ==
    /\ HasPrefix(stream.string, 0, "\\item")
    /\ Len(stream.string) = 5 \/ CharAt(stream.string, 5) = " "

\* C17: the mark of an item is made only by a call of token at column 0 of a
\* line that starts with \item and a space or the end of the line, with the
\* function of a list environment on top of the stack; an \item further in
\* the line makes no mark and has the style of a command.
C17_ItemsStartTheirLine ==
    [][/\ ItemMarked => /\ TokenStep /\ stream.pos = 0
                        /\ ItemStartsLine /\ ListOnTop
       /\ (TokenStep /\ ListOnTop /\ stream.pos > 0 /\ NextIs("\\item")) =>
              /\ state'.marks = state.marks
              /\ result' = "tag"]_vars

\* an indented \item in a list has been styled and has made no mark
C17_Witness ==
    /\ stream.string = " \\item x" /\ stream.pos = 6
    /\ lastCall = "token" /\ result = "tag"
    /\ Top(state.stack).fn = "_matchEnvironment"
    /\ Top(state.stack).env.tokenizer = "_matchListContent"
    /\ state.marks = <<>>

\* _topLevel is on top of the stack
TopLevelOnTop == Top(state.stack).fn = "_topLevel"

\* \maketitle is what is left of the line
MaketitleEndsLine ==
    NextIs("\\maketitle") /\ stream.pos + 10 = Len(stream.string)

\* the step has appended a maketitle mark
MaketitleMarked ==
    /\ Len(state'.marks) = Len(state.marks) + 1
    /\ Top(state'.marks).kind = "maketitle"

\* C18: a maketitle mark is made exactly by a call of token that finds
\* \maketitle as the last text of the line with _topLevel on top of the
\* stack; \maketitle followed by more text makes no mark and has the style
\* tag.
C18_MaketitleOnlyAtLineEnd ==
    [][/\ MaketitleMarked <=> (TokenStep /\ TopLevelOnTop /\ MaketitleEndsLine)
       /\ (TokenStep /\ TopLevelOnTop /\ MaketitleEndsLine) => result' = "tag"
       /\ (TokenStep /\ TopLevelOnTop /\ NextIs("\\maketitle")
             /\ ~MaketitleEndsLine) =>
              /\ state'.marks = state.marks
              /\ result' = "tag"]_vars

\* after a line that is \maketitle, which has its mark, the \maketitle of
\* the line \maketitle y has been styled and has made none
C18_Witness ==
    /\ stream.string = "\\maketitle y" /\ stream.pos = 10
    /\ lastCall = "token" /\ result = "tag"
    /\ state.line = 1
    /\ Len(state.marks) = 1
    /\ state.marks[1].kind = "maketitle"
    /\ state.marks[1].to.line = 0

\* the function pushed at the end of \end{document} is on top of the stack
EndDocumentOnTop == Top(state.stack) = EndDocumentFn

\* stack, openMarks and marks are after the step what they were
NothingChanges ==
    /\ state'.stack = state.stack
    /\ state'.openMarks = state.openMarks
    /\ state'.marks = state.marks

\* \end{document} met at the start of a line by _topLevel has the four
\* styles of its sequence and leaves the pushed function on top
EndsDocument(r) ==
    /\ r.out = <<"tag", "bracket", "keyword", "bracket">>
    /\ Top(r.st.stack) = EndDocumentFn

\* C19 as stated: once the function pushed at the end of \end{document} is
\* on top of the stack, every call of token and of blankLine returns
\* comment, and stack, openMarks and marks stay as they are.
C19_EndDocumentAbsorbs ==
    [][EndDocumentOnTop =>
          /\ NothingChanges
          /\ (TokenStep \/ BlankStep) => result' = "comment"]_vars

\* C19: \end{document} met by _topLevel is styled tag, bracket, keyword,
\* bracket and pushes a function; once it is on top of the stack, every
\* call of token returns comment, _token called by blankLine computes
\* comment while blankLine itself returns nothing, and stack, openMarks and
\* marks stay as they are.
C19_EndDocumentAbsorbsTokens ==
    [][/\ (TopLevelOnTop /\ AtLineEnd) =>
              EndsDocument(parseLine(Machine(state, heap, nextId),
                                     "\\end{document}"))
       /\ EndDocumentOnTop =>
              /\ NothingChanges
              /\ TokenStep => result' = "comment"
              /\ BlankStep =>
                    /\ result' = Undef
                    /\ _token(Context(state, heap, nextId,
                                      StringStream(""))).ret = "comment"]_vars

\* after \end{document} an empty line and then \textbf{abc}, which is one
\* comment: nothing is marked and the pushed function is still on top
C19_Witness ==
    /\ corpus = 6 /\ fed = 3 /\ lastCall = "token"
    /\ stream.string = "\\textbf{abc}" /\ stream.pos = 12
    /\ result = "comment"
    /\ state.stack = <<TopLevelFn, EndDocumentFn>>
    /\ state.marks = <<>> /\ state.openMarks = <<>>
    /\ state.line = 2

\* the marks of a list that the step has made
MadeByStep(marks) == {marks[n] : n \in {k \in DOMAIN marks : marks[k].id >= nextId}}

\* the line of the positions that _startPos and _currentPos make in the step
LineOfStep == fed' - 1

\* the step is a call of token or blankLine that has not thrown
CallStep == (TokenStep \/ BlankStep) /\ error' = "none"

\* state.line after the call: the line of the step, or one less where the
\* call has left the stream at the start of a line that is not empty
LineCounted ==
    state'.line = IF stream'.pos = 0 /\ stream'.string # ""
                  THEN LineOfStep - 1 ELSE LineOfStep

\* what the step has closed ends on the line of the step
ClosedOnLineOfStep ==
    \A m \in MadeByStep(state'.marks) :
        m.contentTo.line = LineOfStep /\ m.to.line = LineOfStep

\* the position from of m was made when a command was met whose argument
\* the function on top of the stack was waiting for
FromOfCommand(m) ==
    /\ Top(state.stack).fn = "deferred"
    /\ "openPos" \in DOMAIN Top(state.stack).tokenizer
    /\ Top(state.stack).tokenizer.openPos = m.from
    /\ m.from.line < LineOfStep

\* C20 as stated: after each call state.line is the number of lines handed
\* over minus one once the line is consumed, and every position of what the
\* call opens or closes is on the line being tokenized.
C20_PositionsOnCurrentLine ==
    [][CallStep =>
          /\ LineCounted
          /\ ClosedOnLineOfStep
          /\ \A m \in MadeByStep(state'.openMarks) :
                 /\ m.contentFrom.line = LineOfStep
                 /\ m.from.line = LineOfStep]_vars

\* C20: after each call state.line is the number of lines handed over minus
\* one once the line is consumed, also after calls that consume nothing at
\* the start of a line; every position that the call makes for what it opens
\* or closes is on the line being tokenized, and the from of a mark opened
\* for the argument of a command is the position of the command, on its own
\* line.
C20_PositionsOnLineWhereTaken ==
    [][CallStep =>
          /\ LineCounted
          /\ ClosedOnLineOfStep
          /\ \A m \in MadeByStep(state'.openMarks) :
                 /\ m.contentFrom.line = LineOfStep
                 /\ m.from.line = LineOfStep \/ FromOfCommand(m)]_vars

\* the third line is \maketitle and the function that waits for the argument
\* of the \title[ of the first line has returned without taking any of it
C20_Witness ==
    /\ corpus = 1 /\ fed = 3 /\ lastCall = "token" /\ error = "none"
    /\ stream.string = "\\maketitle" /\ stream.pos = 0
    /\ result = Undef
    /\ state.line = 1
    /\ state.stack = <<TopLevelFn>>

\* the elements of a sequence
Elements(seq) == {seq[n] : n \in DOMAIN seq}

\* m is an open mark: both starts are set, both ends are absent
IsOpen(m) ==
    /\ m.from # NoPos /\ m.contentFrom # NoPos
    /\ m.contentTo = NoPos /\ m.to = NoPos

\* the open marks that were open before the step are what they were
OpenMarksUntouched ==
    \A m \in Elements(state'.openMarks) :
        m.id < nextId => m \in Elements(state.openMarks)

\* the mark that closed is the closed version of m, m being the open mark
\* that the step has taken off openMarks or a mark that the step has opened
ClosedVersionOf(m, closed) ==
    /\ closed.kind = m.kind
    /\ closed.from = m.from
    /\ closed.contentFrom = m.contentFrom
    /\ closed.contentTo # NoPos /\ closed.to # NoPos

\* the step has closed the innermost open mark or one that it has opened
ClosesAnOpenMark(closed) ==
    \/ /\ state.openMarks # <<>>
       /\ ClosedVersionOf(Top(state.openMarks), closed)
       /\ state'.openMarks = Front(state.openMarks)
    \/ /\ closed.id > nextId
       /\ state'.openMarks = state.openMarks

\* C21: every element of openMarks has from and contentFrom and neither
\* contentTo nor to, and is after each step what it was while it is open; a
\* step that closes a mark appends to marks a new object with the kind, from
\* and contentFrom of the open mark and with both ends, and no object of
\* openMarks is ever an element of marks.
C21_OpenMarksAreReplacedWhenClosed ==
    [][/\ \A m \in Elements(state'.openMarks) : IsOpen(m)
       /\ OpenMarksUntouched
       /\ \/ state'.marks = state.marks
          \/ /\ Front(state'.marks) = state.marks
             /\ Top(state'.marks).id >= nextId
             /\ ClosesAnOpenMark(Top(state'.marks))
       /\ \A m \in Elements(state'.marks) :
              /\ m.id \notin {o.id : o \in Elements(state.openMarks)}
              /\ m.id \notin {o.id : o \in Elements(state'.openMarks)}]_vars

\* the inline math opened by x $y on the first line has stayed open to the
\* $ of the second line, which has closed it
C21_Witness ==
    /\ corpus = 2 /\ fed = 2 /\ lastCall = "token"
    /\ stream.string = "$" /\ stream.pos = 1
    /\ state.openMarks = <<>>
    /\ Len(state.marks) = 1
    /\ state.marks[1].kind = "inline-math"
    /\ state.marks[1].from = Pos(0, 2)
    /\ state.marks[1].contentFrom = Pos(0, 3)
    /\ state.marks[1].contentTo = Pos(1, 0)
    /\ state.marks[1].to = Pos(1, 1)

\* the kinds of the marks of commands with a braced argument
CommandKinds ==
    {"title"} \cup {_commandForPatterns[n].key : n \in DOMAIN _commandForPatterns}

\* the name of the command whose argument has the kind
CommandName(kind) == IF kind = "title" THEN "title" ELSE CommandInfo(kind).text

\* the functions that the step has put on the stack
PushedByStep ==
    {state'.stack[n] : n \in {k \in DOMAIN state'.stack :
        k > Len(state.stack) \/ state'.stack[k] # state.stack[k]}}

\* f waits for the required argument of a command
WaitsForArgument(f) == f.fn = "deferred" /\ f.tokenizer.fn = "requiredArgument"

\* the function that waits for a required argument holds the position of
\* the first character of its command
CommandMetAtFrom ==
    \A f \in PushedByStep :
        WaitsForArgument(f) =>
            /\ TokenStep
            /\ NextIs("\\" \o CommandName(f.tokenizer.kind))
            /\ f.tokenizer.openPos = Pos(LineOfStep, stream.pos)

\* the mark of a command is opened at the { of the argument the function on
\* top of the stack waited for, with the position of the command as from
ArgumentOpenedAfterBrace ==
    \A m \in MadeByStep(state'.openMarks) :
        m.kind \in CommandKinds =>
            /\ TokenStep /\ NextIs("{")
            /\ Top(state.stack) = Deferred(RequiredArgumentFn(m.kind, m.from))
            /\ m.contentFrom = Pos(LineOfStep, stream.pos + 1)

\* the mark of a command is closed at a }
ArgumentClosedAtBrace ==
    \A m \in MadeByStep(state'.marks) :
        m.kind \in CommandKinds =>
            /\ TokenStep /\ NextIs("}")
            /\ m.contentTo = Pos(LineOfStep, stream.pos)
            /\ m.to = Pos(LineOfStep, stream.pos + 1)

\* the function that waits for the optional argument of \title, or the
\* function of that argument at its ], is on top of the stack
ShortTitleStep ==
    /\ TokenStep \/ BlankStep
    /\ \/ Top(state.stack) = Deferred(OptionalArgumentFn)
       \/ /\ Top(state.stack) = ArgumentFn("]", "bracket", "_matchText")
          /\ NextIs("]")

\* C22: the closed mark of a command with a braced argument has from at the
\* first character of the command, contentFrom after the { of the argument,
\* contentTo at its } and to after it, so that space before the { and the
\* optional argument of \title lie between from and contentFrom; the [ and
\* the ] of the optional argument of \title open and close no mark.
C22_CommandMarkPositions ==
    [][/\ CommandMetAtFrom
       /\ ArgumentOpenedAfterBrace
       /\ ArgumentClosedAtBrace
       /\ ShortTitleStep => /\ state'.openMarks = state.openMarks
                            /\ state'.marks = state.marks]_vars

\* \title[s]{l} and then \section {foo}: both are marked, the optional
\* argument and the space lie before contentFrom
C22_Witness ==
    /\ corpus = 9 /\ fed = 2 /\ AtLineEnd /\ lastCall = "token"
    /\ stream.string = "\\section {foo}"
    /\ state.openMarks = <<>>
    /\ MarkValues(state.marks) =
         <<[kind |-> "title", from |-> Pos(0, 0), to |-> Pos(0, 12),
            contentFrom |-> Pos(0, 10), contentTo |-> Pos(0, 11),
            checkedProperties |-> NoProps, openParent |-> <<>>],
           [kind |-> "section", from |-> Pos(1, 0), to |-> Pos(1, 14),
            contentFrom |-> Pos(1, 10), contentTo |-> Pos(1, 13),
            checkedProperties |-> NoProps, openParent |-> <<>>]>>

\* the kinds of the commands that _topLevel and _matchText look for
TopLevelCommandKinds ==
    CommandKinds \ {"caption", "includegraphics"}

\* the text after the name of the command at the cursor is optional space
\* and then [ or {
OpeningFollows(name) ==
    /\ NextIs("\\" \o name)
    /\ CharAt(stream.string,
              SkipIn(stream.string, stream.pos + 1 + Len(name), Whitespace))
         \in {"[", "{"}

\* the step has put on the stack the function that waits for the required
\* argument of the command of the kind
MatchedAs(kind) ==
    \E f \in PushedByStep : WaitsForArgument(f) /\ f.tokenizer.kind = kind

\* the letters after the \ at the cursor
WordAtCursor ==
    SubSeq(stream.string, stream.pos + 2,
           SkipIn(stream.string, stream.pos + 1, Letters))

\* the word at the cursor is no marked command but starts with one
LongerThanMarked ==
    /\ NextIs("\\")
    /\ \A k \in CommandKinds : WordAtCursor # CommandName(k)
    /\ \E k \in CommandKinds :
           /\ NextIs("\\" \o CommandName(k))
           /\ Len(CommandName(k)) < Len(WordAtCursor)

\* C23: with _topLevel on top of the stack, a marked command is matched
\* exactly when its name is followed by optional space and then [ or {; a
\* longer command that starts with the name of a marked command has the
\* style tag, is taken whole and opens no mark.
C23_CommandNeedsOpeningAfterName ==
    [][(TokenStep /\ TopLevelOnTop) =>
          /\ \A k \in TopLevelCommandKinds :
                 MatchedAs(k) <=> OpeningFollows(CommandName(k))
          /\ LongerThanMarked =>
                 /\ result' = "tag"
                 /\ stream'.pos = stream.pos + 1 + Len(WordAtCursor)
                 /\ state'.stack = state.stack
                 /\ state'.openMarks = state.openMarks
                 /\ state'.marks = state.marks]_vars

\* f is the function of a region that has a mark and ends at an empty line:
\* that of _matchAndMark, or _matchEnvironment of a math environment
AbandonedByBlankLine(f) ==
    \/ f.fn = "markRegion"
    \/ /\ f.fn = "_matchEnvironment"
       /\ f.mark /\ ~f.env.allowBlankLines

\* every function above _topLevel is that of such a region
OnlyMarkedRegionsOpen ==
    /\ Len(state.stack) >= 2
    /\ state.stack[1] = TopLevelFn
    /\ \A n \in 2..Len(state.stack) : AbandonedByBlankLine(state.stack[n])

\* C24: when every function above _topLevel on the stack is that of a marked
\* region or of a math environment, one call of blankLine leaves no open
\* mark, leaves _topLevel alone on the stack and leaves marks as they were.
C24_BlankLineAbandonsAllRegions ==
    [][(BlankStep /\ OnlyMarkedRegionsOpen) =>
          /\ state'.openMarks = <<>>
          /\ state'.stack = <<TopLevelFn>>
          /\ state'.marks = state.marks]_vars

\* \section{t $x has opened two marks, one in the other, and the empty line
\* after it has abandoned both
C24_Witness ==
    /\ corpus = 2 /\ fed = 2 /\ lastCall = "blankLine"
    /\ nextId = 3
    /\ state.openMarks = <<>> /\ state.marks = <<>>
    /\ state.stack = <<TopLevelFn>>

\* lines of nothing but space
WhitespaceLines == {" ", "\t", " \t"}

\* the stack, openMarks and marks that the line leaves, tokenized from the
\* state the host has reached
LeftBy(line) ==
    LET r == parseLine(Machine(state, heap, nextId), line) IN
    [stack |-> r.st.stack, openMarks |-> MarkValues(r.st.openMarks),
     marks |-> MarkValues(r.st.marks)]

\* C25: a line of nothing but space, tokenized after any line the host has
\* finished, leaves the stack, openMarks and marks that an empty line leaves.
C25_WhitespaceLineIsBlankLine ==
    (AtLineEnd /\ error = "none") =>
        \A line \in WhitespaceLines : LeftBy(line) = LeftBy("")

\* the line is empty or has nothing but space
WhitespaceOnly(str) == SkipIn(str, 0, Whitespace) = Len(str)

\* the step has closed the open mark m
ClosedByStep(m) ==
    /\ state'.marks # state.marks
    /\ m = Top(state.openMarks)
    /\ ClosedVersionOf(m, Top(state'.marks))

\* the step has abandoned the open mark m
AbandonedByStep(m) ==
    /\ m \notin Elements(state'.openMarks)
    /\ ~ClosedByStep(m)

\* the text at the cursor is one that the region on top of the stack has in
\* its list abandon
AbandonPatternAtCursor ==
    /\ Top(state.stack).fn = "markRegion"
    /\ \E n \in DOMAIN Top(state.stack).abandon :
           NextIs(Top(state.stack).abandon[n])

\* C26: an open mark is abandoned only by a call at the start of a line that
\* is empty or all space, or by the region on top of the stack at a text of
\* its list abandon; on a line with a character that is not space no call
\* abandons a mark for a blank line, whatever space the line starts or ends
\* with.
C26_BlankLineRuleNeedsBlankLine ==
    [][\A m \in Elements(state.openMarks) :
           AbandonedByStep(m) =>
               \/ BlankStep
               \/ /\ TokenStep /\ stream.pos = 0
                  /\ WhitespaceOnly(stream.string)
               \/ /\ TokenStep /\ m = Top(state.openMarks)
                  /\ AbandonPatternAtCursor]_vars

\* the inline math opened at the start of the first line is still open at
\* the end of the line " x ", which starts and ends with a space
C26_Witness ==
    /\ corpus = 2 /\ fed = 2 /\ lastCall = "token" /\ AtLineEnd
    /\ stream.string = " x "
    /\ state.marks = <<>>
    /\ Len(state.openMarks) = 1
    /\ state.openMarks[1].kind = "inline-math"
    /\ state.openMarks[1].from = Pos(0, 0)

\* the names of the environments that may hold blank lines
BlankLineEnvironments ==
    {"abstract", "figure", "itemize", "enumerate", "verbatim", "Verbatim",
     "lstlisting", "minted", "comment", "tikzpicture"}

\* _matchEnvironment of such an environment is on top of the stack
BlankLineEnvironmentOnTop ==
    /\ Top(state.stack).fn = "_matchEnvironment"
    /\ Top(state.stack).env.text \in BlankLineEnvironments

\* C27: an empty line met while _matchEnvironment of an environment that
\* may hold blank lines is on top of the stack leaves stack, openMarks and
\* marks as they are and adds one to state.line.
C27_BlankLineKeptInEnvironment ==
    [][(BlankStep /\ BlankLineEnvironmentOnTop) =>
          /\ NothingChanges
          /\ state'.line = state.line + 1]_vars

\* an empty line after \begin{figure}: the figure is still open
C27_Witness ==
    /\ corpus = 5 /\ fed = 2 /\ lastCall = "blankLine"
    /\ state.line = 1
    /\ BlankLineEnvironmentOnTop
    /\ Top(state.stack).env.text = "figure"
    /\ Len(state.openMarks) = 1
    /\ state.openMarks[1].kind = "figure"
    /\ state.marks = <<>>

\* lines that are a comment, with and without space before the %
CommentLines == {"%", "% $x$", " % c", "\t%}"}

\* the call that ended in c has taken the rest of the line as a comment and
\* has left the stack, openMarks and marks of st
TakenAsComment(c, st) ==
    /\ c.ret = "comment" /\ c.err = "none"
    /\ c.pos = Len(c.str)
    /\ c.stack = st.stack
    /\ c.openMarks = st.openMarks
    /\ c.marks = st.marks

\* C28: a call of token that finds optional space and a % at the cursor
\* returns comment, takes the rest of the line and leaves stack, openMarks
\* and marks as they are, whatever is on top of the stack; so does token on
\* a comment line after any line that the host has finished.
C28_LineCommentComesFirst ==
    [][/\ (TokenStep /\ ReLineComment(stream.string, stream.pos) # NoMatch) =>
              /\ result' = "comment"
              /\ stream'.pos = Len(stream.string)
              /\ NothingChanges
       /\ (stream'.pos >= Len(stream'.string) /\ error' = "none") =>
              \A line \in CommentLines :
                  TakenAsComment(token(state', heap', nextId',
                                       StringStream(line)), state')]_vars

\* the % of \begin{%} has been taken as a comment while the function that
\* waits for the name of the environment is on top of the stack
C28_Witness ==
    /\ stream.string = "\\begin{%}" /\ stream.pos = 9
    /\ lastCall = "token" /\ result = "comment"
    /\ Len(state.stack) = 2
    /\ Top(state.stack).fn = "deferred"
    /\ state.openMarks = <<>> /\ state.marks = <<>>

\* the function that \verb has pushed is on top of the stack
VerbOnTop == Top(state.stack).fn = "verb"

\* the delimiter of the \verb is at the cursor
DelimiterAtCursor == NextIs(Top(state.stack).verbEnd)

\* the call has matched the delimiter: tag, and the function is popped
VerbEnds ==
    /\ result' = "tag"
    /\ stream'.pos = stream.pos + 1
    /\ state'.stack = Front(state.stack)

\* the call has gone on with the text of the \verb
VerbGoesOn ==
    /\ result' = "string"
    /\ state'.stack = state.stack

\* C29 as stated: while the function of \verb is on top of the stack, a call
\* of token at the delimiter returns tag and pops it, any other call of
\* token returns string and leaves the stack, an empty line leaves the
\* stack, and openMarks and marks stay as they are.
C29_VerbStringUntilDelimiter ==
    [][VerbOnTop =>
          /\ state'.openMarks = state.openMarks
          /\ state'.marks = state.marks
          /\ BlankStep => state'.stack = state.stack
          /\ TokenStep => IF DelimiterAtCursor THEN VerbEnds ELSE VerbGoesOn]_vars

\* C29: while the function of \verb is on top of the stack, a call of token
\* that finds optional space and a % at the cursor returns comment, takes
\* the rest of the line and leaves the stack, even when the delimiter is at
\* the cursor or later on the line; any other call of token returns tag and
\* pops the function at the delimiter, and returns string and leaves the
\* stack elsewhere; blankLine leaves the stack and returns nothing; openMarks
\* and marks stay as they are.
C29_VerbStringOrCommentUntilDelimiter ==
    [][VerbOnTop =>
          /\ state'.openMarks = state.openMarks
          /\ state'.marks = state.marks
          /\ BlankStep => state'.stack = state.stack /\ result' = Undef
          /\ TokenStep =>
                IF ReLineComment(stream.string, stream.pos) # NoMatch
                THEN /\ result' = "comment"
                     /\ stream'.pos = Len(stream.string)
                     /\ state'.stack = state.stack
                ELSE IF DelimiterAtCursor THEN VerbEnds ELSE VerbGoesOn]_vars

\* after \verb| the rest of the line \verb|%| has been taken as a comment,
\* its second | with it, and the function of the \verb is still on top of
\* the stack on the third line
C29_Witness ==
    /\ corpus = 7 /\ fed = 3 /\ lastCall = "token"
    /\ stream.string = "\\verb*+x" /\ AtLineEnd
    /\ result = "string"
    /\ state.stack = <<TopLevelFn, VerbFn("|")>>
    /\ state.openMarks = <<>> /\ state.marks = <<>>

\* the names of the ignored environments and of tikzpicture
IgnoredEnvironments ==
    {"verbatim", "Verbatim", "lstlisting", "minted", "comment", "tikzpicture"}

\* _matchEnvironment of an ignored environment or of tikzpicture
IgnoresContent(f) ==
    f.fn = "_matchEnvironment" /\ f.env.text \in IgnoredEnvironments

\* the places of the stack that hold such a function
IgnoredOnStack == {n \in DOMAIN state.stack : IgnoresContent(state.stack[n])}

\* the function at place n is on top of the stack and the call has found the
\* \end of its environment at the cursor
PoppedByItsEnd(n) ==
    /\ TokenStep /\ n = Len(state.stack)
    /\ ReEnvEnd(stream.string, stream.pos, state.stack[n].env.text) # NoMatch
    /\ result' = "tag"

\* C30: while _matchEnvironment of an ignored environment or of tikzpicture
\* is on the stack, openMarks and marks stay as they are, and the function
\* stays where it is on the stack unless it is on top and the call finds the
\* \end of its own environment.
C30_IgnoredEnvironmentsMarkNothing ==
    [][IgnoredOnStack # {} =>
          /\ state'.openMarks = state.openMarks
          /\ state'.marks = state.marks
          /\ \A n \in IgnoredOnStack :
                 \/ /\ n <= Len(state'.stack)
                    /\ state'.stack[n] = state.stack[n]
                 \/ PoppedByItsEnd(n)]_vars

\* the line \textbf{}\ after \begin{verbatim} has been taken as strings:
\* nothing is marked and the function of verbatim is on top of the stack
C30_Witness ==
    /\ corpus = 7 /\ fed = 2 /\ lastCall = "token" /\ AtLineEnd
    /\ stream.string = "\\textbf{}\\"
    /\ result = "string"
    /\ Len(state.stack) = 2
    /\ IgnoresContent(Top(state.stack))
    /\ Top(state.stack).env.text = "verbatim"
    /\ state.openMarks = <<>> /\ state.marks = <<>>

\* f is _matchEnvironment of a math environment
OfMathEnvironment(f) ==
    /\ f.fn = "_matchEnvironment"
    /\ \E n \in DOMAIN _MATH_ENVIRONMENTS : _MATH_ENVIRONMENTS[n] = f.env

\* C31: the function and the mark of a math environment are made only by a
\* call that ends the line, the } of its \begin{name} being the last text
\* of the line.
C31_MathEnvironmentBeginEndsLine ==
    [][\A f \in PushedByStep :
           OfMathEnvironment(f) =>
               /\ TokenStep
               /\ stream'.pos = Len(stream.string)]_vars

\* f is _matchEnvironment of itemize or enumerate
OfList(f) ==
    f.fn = "_matchEnvironment" /\ f.env.tokenizer = "_matchListContent"

\* the \end of the list on top of the stack, with text after it, tokenized
\* after the line that the step has finished
ListEndWithText ==
    parseLine(Machine(state', heap', nextId'),
              "\\end{" \o Top(state'.stack).env.text \o "} x")

\* the line has closed the list: its mark is the newest of marks and its
\* function is off the stack
ClosesList(r) ==
    /\ r.st.stack = Front(state'.stack)
    /\ r.st.openMarks = Front(state'.openMarks)
    /\ Front(r.st.marks) = state'.marks
    /\ Top(r.st.marks).kind = Top(state'.stack).env.kind
    /\ Top(r.st.marks).from = Top(state'.openMarks).from

\* C32: the function and the mark of itemize or enumerate are made only by
\* a call that ends the line at the } of the \begin; the mark of an item is
\* made only with the function of a list on top of the stack; the \end of
\* the list on top of the stack closes its mark also when text follows it
\* on the line.
C32_ListBeginEndsLineEndNeedNot ==
    [][/\ \A f \in PushedByStep :
              OfList(f) => TokenStep /\ stream'.pos = Len(stream.string)
       /\ \A m \in MadeByStep(state'.openMarks) :
              m.kind \in {"itemize", "enumerate"} =>
                  /\ TokenStep /\ stream'.pos = Len(stream.string)
                  /\ OfList(Top(state'.stack))
       /\ ItemMarked => ListOnTop
       /\ (ListOnTop' /\ stream'.pos >= Len(stream'.string)
             /\ error' = "none") => ClosesList(ListEndWithText)]_vars

\* \begin{itemize} x has opened no list and the \item x after it has made
\* no mark
C32_Witness ==
    /\ corpus = 8 /\ fed = 2 /\ lastCall = "token" /\ AtLineEnd
    /\ stream.string = "\\item x"
    /\ state.stack = <<TopLevelFn>>
    /\ state.openMarks = <<>> /\ state.marks = <<>>

\* the kinds that only environments give to their marks
EnvironmentKinds ==
    {"abstract", "figure", "itemize", "enumerate", "outer-display-math"}

\* the closed mark is that of an environment
OfEnvironment(m) ==
    m.kind \in EnvironmentKinds \/ "fromLine" \in DOMAIN m.checkedProperties

\* the function on top of the stack waits for the } of the \end of an
\* environment that has a mark
EndOfMarkedEnvironment ==
    /\ Top(state.stack).fn = "deferred"
    /\ Top(state.stack).tokenizer.fn = "_matchNext"
    /\ Top(state.stack).tokenizer.callback.cb = "end"
    /\ Top(state.stack).tokenizer.callback.mark
    /\ NextIs("}")

\* the mark that the step has closed ends where the \end{env} of the line
\* starts and ends, and has the properties of the open mark on top
ClosedAtEnd(m) ==
    /\ TokenStep /\ EndOfMarkedEnvironment
    /\ state.openMarks # <<>>
    /\ m.contentTo = Top(state.stack).tokenizer.callback.markClosePos
    /\ m.contentTo.line = LineOfStep
    /\ HasPrefix(stream.string, m.contentTo.ch, "\\end")
    /\ m.to = Pos(LineOfStep, stream.pos + 1)
    /\ m.checkedProperties.fromLine = m.from.line
    /\ m.checkedProperties.toLine = m.to.line
    /\ m.checkedProperties.openMarksCount = Len(state'.openMarks)
    /\ m.checkedProperties.openMarksCount =
           Top(state.openMarks).checkedProperties.openMarksCount

\* the mark of the item has the openMarksCount of the list on top of
\* openMarks
CountedAsItsList(m) ==
    /\ state.openMarks # <<>>
    /\ Top(state.openMarks).kind \in {"itemize", "enumerate"}
    /\ m.checkedProperties.openMarksCount =
           Top(state.openMarks).checkedProperties.openMarksCount

\* C33: the closed mark of an environment has contentTo at the \ of the
\* \end, to after the } of \end{env}, fromLine and toLine the lines of from
\* and to, and as openMarksCount the number of marks still open, which is
\* the openMarksCount of its open mark; the mark of an item has the
\* openMarksCount of its list.
C33_EnvironmentMarkProperties ==
    [][\A m \in MadeByStep(state'.marks) :
           /\ OfEnvironment(m) => ClosedAtEnd(m)
           /\ m.kind \in ItemKinds => CountedAsItsList(m)]_vars

\* \textit{\begin{equation} and \end{equation}}: the equation has closed
\* first, with the mark of \textit still open
C33_Witness ==
    /\ corpus = 4 /\ fed = 2 /\ lastCall = "token" /\ AtLineEnd
    /\ stream.string = "\\end{equation}}"
    /\ Len(state.marks) = 2
    /\ state.marks[1].kind = "outer-display-math"
    /\ state.marks[1].contentTo = Pos(1, 0)
    /\ state.marks[1].to = Pos(1, 14)
    /\ state.marks[1].checkedProperties.openMarksCount = 1
    /\ state.marks[1].checkedProperties.fromLine = 0
    /\ state.marks[1].checkedProperties.toLine = 1

\* the marks that were in openMarks or in marks before the step and are
\* still in one of them are what they were
MarksImmutable ==
    \A m \in Elements(state.openMarks) \cup Elements(state.marks) :
        \A n \in Elements(state'.openMarks) \cup Elements(state'.marks) :
            n.id = m.id => n = m

\* a step that has taken marks off openMarks and has neither opened nor
\* closed a mark has taken them off the top and has left marks as it was
AbandonLeavesMarks ==
    (Len(state'.openMarks) < Len(state.openMarks) /\ nextId' = nextId) =>
        /\ IsPrefix(state'.openMarks, state.openMarks)
        /\ state'.marks = state.marks
        /\ Len(state'.stack) < Len(state.stack)

\* C34: no call takes a mark off state.marks or moves one, no call changes a
\* field of a mark that was in marks or openMarks before it, and abandoning
\* marks changes openMarks and the stack only.
C34_MarksAppendOnlyAndImmutable ==
    [][/\ IsPrefix(state.marks, state'.marks)
       /\ MarksImmutable
       /\ AbandonLeavesMarks]_vars

\* $a $$b$$ has left a closed display math, x $y has opened an inline math
\* and the empty line has abandoned it
C34_Witness ==
    /\ corpus = 2 /\ fed = 3 /\ lastCall = "blankLine"
    /\ state.openMarks = <<>>
    /\ Len(state.marks) = 1
    /\ state.marks[1].kind = "display-math"
    /\ state.marks[1].from = Pos(0, 3)
    /\ state.marks[1].id + 2 = nextId
    /\ state.stack = <<TopLevelFn>>

\* f is a function of the stack that has a mark of its own in openMarks: the
\* function of a marked region, that of an environment with a mark, or the
\* rest of the \end{env} of such an environment
OwnsMark(f) ==
    \/ f.fn = "markRegion"
    \/ f.fn = "_matchEnvironment" /\ f.mark
    \/ /\ f.fn = "deferred" /\ f.tokenizer.fn = "_matchNext"
       /\ f.tokenizer.callback.cb = "end" /\ f.tokenizer.callback.mark

\* the open mark m is one that f can have opened
MarkOf(f, m) ==
    IF f.fn = "_matchEnvironment"
    THEN m.kind = f.env.kind /\ "openMarksCount" \in DOMAIN m.checkedProperties
    ELSE IF f.fn = "markRegion"
         THEN "openMarksCount" \notin DOMAIN m.checkedProperties
         ELSE "openMarksCount" \in DOMAIN m.checkedProperties

\* C35: after every call of token and blankLine, the open marks are, one for
\* one and in the same order, those of the functions of the stack that own
\* a mark.
C35_OpenMarksMatchStack ==
    (lastCall \in {"token", "blankLine"} /\ error = "none") =>
        LET owners == SelectSeq(state.stack, OwnsMark) IN
        /\ Len(owners) = Len(state.openMarks)
        /\ \A n \in DOMAIN owners : MarkOf(owners[n], state.openMarks[n])

\* \textit{\begin{equation} and then \end of \end{equation}}: the rest of
\* the \end{equation} owns the mark of the equation, over that of \textit
C35_Witness ==
    /\ corpus = 4 /\ fed = 2 /\ lastCall = "token" /\ error = "none"
    /\ stream.string = "\\end{equation}}" /\ stream.pos = 4
    /\ Len(state.stack) = 3
    /\ state.stack[2].fn = "markRegion"
    /\ OwnsMark(state.stack[3]) /\ state.stack[3].fn = "deferred"
    /\ Len(state.openMarks) = 2
    /\ state.openMarks[1].kind = "textit"
    /\ state.openMarks[2].kind = "outer-display-math"

\* the kinds of the marks that only _topLevel opens
TopLevelOnlyKinds ==
    {"title", "author", "maketitle", "abstract", "chapter", "chapter\\*",
     "section", "section\\*", "subsection", "subsection\\*", "subsubsection",
     "subsubsection\\*"}

\* C36: an open mark of a kind that only _topLevel opens is the only open
\* mark below it, that is the first of openMarks; a closed mark of such a
\* kind has no openParent, and that of an abstract has openMarksCount 0.
C36_TopLevelMarksHaveNoParent ==
    /\ \A n \in DOMAIN state.openMarks :
           state.openMarks[n].kind \in TopLevelOnlyKinds =>
               /\ n = 1
               /\ state.openMarks[n].openParent = NoMark
    /\ \A m \in Elements(state.marks) :
           m.kind \in TopLevelOnlyKinds =>
               /\ m.openParent = NoMark
               /\ m.kind = "abstract" => m.checkedProperties.openMarksCount = 0

\* \section {foo} on the line after \textbf{a: the mark of \textbf is open
\* and the line has opened no mark
C36_Witness ==
    /\ corpus = 9 /\ fed = 2 /\ lastCall = "token" /\ AtLineEnd
    /\ stream.string = "\\section {foo}"
    /\ Len(state.openMarks) = 1
    /\ state.openMarks[1].kind = "textbf"
    /\ state.marks = <<>>
    /\ Len(state.stack) = 2

Retry(c, pos) == c.err = "none" /\ c.pos = pos

\* the call of token that the host makes after c
NextToken(c) == token(StateOf(c), c.heap, c.nextId, StreamOf(c))

\* c being the call after a call that has consumed nothing: if c has
\* consumed nothing either, the call after c has not returned so
ThirdConsumes(c, pos) == Retry(c, pos) => ~Retry(NextToken(c), pos)

\* the call has taken a deferred function off the stack and nothing else
\* has changed
PopsOneDeferred ==
    /\ Top(state.stack).fn = "deferred"
    /\ state'.stack = Front(state.stack)
    /\ state'.openMarks = state.openMarks
    /\ state'.marks = state.marks

\* C38: a call of token that returns without having consumed anything has
\* taken one deferred function off the stack and has changed neither
\* openMarks nor marks, and of the two calls after it one at least consumes.
C38_RetriesAreBounded ==
    [][(TokenStep /\ error' = "none" /\ stream'.pos = stream.pos) =>
           /\ PopsOneDeferred
           /\ ThirdConsumes(token(state', heap', nextId', stream'),
                            stream.pos)]_vars

\* \section[x]{y}: the function that waited for { has met [ and has left
\* the stream after \section
C38_Witness ==
    /\ corpus = 1 /\ lastCall = "token" /\ error = "none"
    /\ stream.string = "\\section[x]{y}" /\ stream.pos = 8
    /\ state.stack = <<TopLevelFn>>
    /\ state.openMarks = <<>>

\* the kinds of the marks of the commands of _matchCommandWithArgument
ArgumentCommandKinds == CommandKinds \ {"title", "includegraphics"}

\* the function on top of the stack waits for the required argument of a
\* command of _matchCommandWithArgument
ArgumentAwaited ==
    /\ WaitsForArgument(Top(state.stack))
    /\ Top(state.stack).tokenizer.kind \in ArgumentCommandKinds

\* the step has opened at { the mark of the awaited argument
ArgumentMarkOpened ==
    /\ stream'.pos = stream.pos + 1
    /\ state'.openMarks # <<>>
    /\ Front(state'.openMarks) = state.openMarks
    /\ Top(state'.openMarks).kind = Top(state.stack).tokenizer.kind
    /\ Top(state'.openMarks).id >= nextId
    /\ state'.marks = state.marks
    /\ Top(state'.stack).fn = "markRegion"

\* c being the call after the step: the function that was below the one
\* that waited has consumed the [ and has opened and closed nothing
BracketLeftToEnclosing(c) ==
    /\ c.err = "none"
    /\ c.pos > stream.pos
    /\ c.stack = Front(state.stack)
    /\ c.openMarks = state.openMarks
    /\ c.marks = state.marks

\* C39: the function that waits for the required argument of a command of
\* _matchCommandWithArgument is called at { or at [; at { it opens the mark
\* of the kind of the command, at [ it goes off the stack, consumes nothing
\* and opens nothing, and the function below it takes the [; no mark of
\* such a kind is opened in any other way.
C39_ArgumentMarkedOnlyAtBrace ==
    [][/\ (ArgumentAwaited /\ TokenStep /\ error' = "none") =>
              /\ NextIs("{") \/ NextIs("[")
              /\ NextIs("{") => ArgumentMarkOpened
              /\ NextIs("[") =>
                     /\ PopsOneDeferred
                     /\ stream'.pos = stream.pos
                     /\ BracketLeftToEnclosing(
                            token(state', heap', nextId', stream'))
       /\ \A m \in MadeByStep(state'.openMarks) :
              m.kind \in ArgumentCommandKinds =>
                  /\ ArgumentAwaited /\ TokenStep /\ NextIs("{")
                  /\ m.kind = Top(state.stack).tokenizer.kind]_vars

\* \section[x]{y} has been read to its end and has left no mark
C39_Witness ==
    /\ corpus = 1 /\ fed = 1 /\ lastCall = "token" /\ AtLineEnd
    /\ stream.string = "\\section[x]{y}"
    /\ state.stack = <<TopLevelFn>>
    /\ state.openMarks = <<>>
    /\ state.marks = <<>>

(***************************************************************************)
(* Mark.copy.  The result of a call is a record: ret the mark returned,    *)
(* this the mark the call was made on or with, as the call has left it,    *)
(* err the exception thrown.                                               *)
(***************************************************************************)
\* WL.LatexMode.Mark.copy(mark) of parser.js; id is the identity of the new
\* object
Mark_copy(mark, id) ==
    [ret |-> Mark(id, mark.kind, mark.from, mark.contentFrom, mark.contentTo,
                  mark.to, mark.openParent),
     this |-> mark, err |-> "none"]

\* the identifiers that the scopes of copy() of the class Mark bind: the
\* method has no parameters and the module declares the class only
CopyScope == {"Mark"}

\* copy() of the class Mark: its first argument, this.kind = kind, reads the
\* identifier kind; where no scope binds it the read throws before anything
\* is assigned.  With all six identifiers bound the arguments would be the
\* values of kind, from, to, contentFrom, contentTo and openParent in the
\* constructor's order of kind, from, contentFrom, contentTo, to, openParent.
copy(this, id, scope) ==
    IF {"kind", "from", "to", "contentFrom", "contentTo", "openParent"}
           \subseteq DOMAIN scope
    THEN [ret |-> Mark(id, scope.kind, scope.from, scope.to,
                       scope.contentFrom, scope.contentTo, scope.openParent),
          this |-> [this EXCEPT !.kind = scope.kind, !.from = scope.from,
                                !.to = scope.to,
                                !.contentFrom = scope.contentFrom,
                                !.contentTo = scope.contentTo,
                                !.openParent = scope.openParent],
          err |-> "none"]
    ELSE [ret |-> NoMark, this |-> this, err |-> "ReferenceError"]

\* the scope of a call of copy(): nothing binds the six identifiers
NoBindings == [n \in CopyScope |-> Undef]

\* the call has returned a new mark with the six fields of m and empty
\* checkedProperties, and has left m as it was
CopiedRight(r, m) ==
    /\ r.err = "none"
    /\ r.ret.id # m.id
    /\ r.ret.kind = m.kind
    /\ r.ret.from = m.from /\ r.ret.contentFrom = m.contentFrom
    /\ r.ret.contentTo = m.contentTo /\ r.ret.to = m.to
    /\ r.ret.openParent = m.openParent
    /\ r.ret.checkedProperties = NoProps
    /\ r.this = m

\* C40: for every mark of the state, Mark.copy of parser.js and copy() of
\* the class Mark return a new mark with the kind, from, contentFrom,
\* contentTo, to and openParent of the mark, with empty checkedProperties,
\* and leave the mark as it was.
C40_CopyEqualsOriginal ==
    \A m \in Elements(state.marks) \cup Elements(state.openMarks) :
        /\ CopiedRight(Mark_copy(m, nextId), m)
        /\ CopiedRight(copy(m, nextId, NoBindings), m)

\* what holds of the two: the function of parser.js copies right, the
\* method of the class throws and leaves the mark as it was
CopyOfParserOnly ==
    \A m \in Elements(state.marks) \cup Elements(state.openMarks) :
        /\ CopiedRight(Mark_copy(m, nextId), m)
        /\ copy(m, nextId, NoBindings).err = "ReferenceError"
        /\ copy(m, nextId, NoBindings).this = m

=============================================================================
